---- MODULE Spec2Model ----
(***************************************************************************)
(* Playback / radio engine of EchosAnvil: the MusicQueue class of          *)
(* src/musicQueue.js (src/unnamed/part_003) with the callers of            *)
(* src/commands.js (src/unnamed/part_004).                                 *)
(*                                                                         *)
(* One MusicQueue object is modelled.  Its fields are the variables; every *)
(* handler is a pure operator on the record W of all fields, run to its    *)
(* next await; an action applies one handler.  What a handler awaits (a    *)
(* timer, the stream of the media resolver, a search) is a task in the bag *)
(* `pending`, resumed by a later action.  The audio player of              *)
(* @discordjs/voice is the environment: it plays the resource handed to    *)
(* it, and emits Idle and error events.                                    *)
(***************************************************************************)
EXTENDS Integers, Sequences, FiniteSets, Bags, TLC

VARIABLES
    queue,            \* this.queue
    currentSong,      \* this.currentSong (NoSong for null)
    isPlaying,        \* this.isPlaying
    radioMode,        \* this.radioMode
    discoveryMode,    \* this.discoveryMode
    recentlyPlayed,   \* this.recentlyPlayed
    recentArtists,    \* this.recentArtists
    currentVolume,    \* this.currentVolume, in steps of 1/fadeSteps
    fadeInterval,     \* this.fadeInterval with the currentStep of its closure
    retryCount,       \* this.retryCount
    failedUrls,       \* this.failedUrls
    connection,       \* this.connection # null
    textChannel,      \* this.textChannel # null
    voiceChannel,     \* this.voiceChannel # null
    player,           \* the AudioPlayer: status, attached resource, winding down
    pending,          \* bag of suspended continuations (timers, awaited promises)
    members,          \* non-bot members of the guild's voice channel
    guildQueues,      \* the Map guildQueues of index.js: guild id -> object id
    objects,          \* the MusicQueue objects that the Map refers to
    database,         \* database.js: the user_songs table, the query cache, the clock
    ytdlp,            \* the closure of the Promise of playWithLocalStream
    intervals,        \* the setInterval timers of the ramps, and this.fadeInterval as
                      \* a reference to one of them
    hist,             \* history variables the properties read
    budget            \* what the environment may still do (bounds the model)

vars == <<queue, currentSong, isPlaying, radioMode, discoveryMode, recentlyPlayed,
          recentArtists, currentVolume, fadeInterval, retryCount, failedUrls,
          connection, textChannel, voiceChannel, player, pending, members,
          guildQueues, objects, database, ytdlp, intervals, hist, budget>>

----------------------------------------------------------------------------
(* Bounds of the model *)

MaxAdds == 3        \* addSong / addPlaylist calls
MaxErrors == 4      \* player error events
MaxFails == 1       \* failing stream acquisitions and searches
MaxCmds == 2        \* skip / pause / clear / mode toggles
MaxResets == 1      \* disconnects

\* the environments explored: each bounds what the users, the player and the
\* media resolver may do in one run
Budget(a, e, f, c, r) == [adds |-> a, errors |-> e, fails |-> f, cmds |-> c, resets |-> r]
Profiles ==
    { Budget(MaxAdds, 0, MaxFails, 0, 0),
      Budget(MaxAdds - 1, MaxErrors, 0, 0, 0),
      Budget(1, MaxErrors, 0, 0, MaxResets),
      Budget(0, 0, 0, MaxCmds, MaxResets),
      Budget(1, 0, MaxFails, MaxCmds, 0),
      Budget(MaxAdds - 1, 0, MaxFails, MaxCmds - 1, 0) }

(* Program constants *)

maxRetries == 3
fadeSteps == 20
MaxHistoryCap == 50
MaxArtistCap == 10

----------------------------------------------------------------------------
(* Data *)

Urls == {"a", "b"}

NoSong == [url |-> "", by |-> "none", artist |-> "", seq |-> 0, prio |-> FALSE, at |-> 0]

\* the song object built by addSong; seq, prio and at record when and how it
\* was enqueued (seq: number of the call, at: tracks drained before it)
UserSong(u, n, p, k) ==
    [url |-> u, by |-> "user", artist |-> "Unknown", seq |-> n, prio |-> p, at |-> k]

NoFade == [kind |-> "none", step |-> 0]

IdlePlayer == [status |-> "idle", res |-> "", ending |-> FALSE]

\* a suspended continuation: its kind, the url of the song it carries (stream)
\* and the urls of the library it has read (search)
Task(k, u, kn) == [k |-> k, url |-> u, known |-> kn]
Timer(k) == Task(k, "", {})

Spawn(w, t) == [w EXCEPT !.pending = @ (+) SetToBag({t})]
Resume(w, t) == [w EXCEPT !.pending = @ (-) SetToBag({t})]

----------------------------------------------------------------------------
(* Arithmetic helpers *)

Min(a, b) == IF a < b THEN a ELSE b
Max(a, b) == IF a > b THEN a ELSE b

\* s.slice(-k)
LastN(s, k) == IF k >= Len(s) THEN s ELSE SubSeq(s, Len(s) - k + 1, Len(s))

Range(s) == {s[i] : i \in DOMAIN s}

RECURSIVE Pow2(_)
Pow2(k) == IF k = 0 THEN 1 ELSE 2 * Pow2(k - 1)

\* Math.ceil(Math.log2(n)) for n >= 1: the least k with 2^k >= n
RECURSIVE CeilLog2From(_, _)
CeilLog2From(n, k) == IF Pow2(k) >= n THEN k ELSE CeilLog2From(n, k + 1)
CeilLog2(n) == CeilLog2From(n, 0)

----------------------------------------------------------------------------
(* playRadioSong, the selection (part_003:928-1053).  `songs` is the result *)
(* of getMultipleUsersSongs, rp / ra the two histories, coin the outcome of *)
(* Math.random() < 0.5 and pick / RandDen the value of the Math.random()    *)
(* that chooses the index.                                                  *)

RandDen == 2

Cand(u, a, uc, tr) ==
    [song_url |-> u, song_artist |-> a, user_count |-> uc, total_requests |-> tr]

\* a faulty history size: all of the library
maxHistorySizeAll(songs) == Min(Len(songs), MaxHistoryCap)

maxHistorySize(songs) == Min((Len(songs) * 6) \div 10, MaxHistoryCap)
maxArtistHistory(songs) == Min((Len(songs) * 15) \div 100, MaxArtistCap)

\* a faulty filter: the history is not consulted
FilterRecentAll(songs, rp) == songs

\* songs.filter(song => !recentUrls.has(song.song_url))
FilterRecent(songs, rp) ==
    LET Fresh(c) == c.song_url \notin Range(rp) IN SelectSeq(songs, Fresh)

\* availableSongs.filter(song => !recentArtistSet.has(artist) || artist === 'Unknown')
FilterArtists(avail, ra) ==
    LET Diverse(c) == c.song_artist \notin Range(ra) \/ c.song_artist = "Unknown"
    IN SelectSeq(avail, Diverse)

\* a faulty artist filter: it is kept however few songs it leaves
DiverseSongsUngated(songs, rp, ra) ==
    LET Gate(avail, af) ==
            IF Len(avail) * 5 >= Len(songs) /\ Len(avail) >= 10 THEN af ELSE avail
        Filtered(avail) == Gate(avail, FilterArtists(avail, ra))
    IN Filtered(FilterRecent(songs, rp))

\* lines 938-957: the artist filter and its two gates
DiverseSongs(songs, rp, ra) ==
    LET Gate(avail, af) ==
            IF Len(avail) * 5 >= Len(songs) /\ Len(avail) >= 10
            THEN IF Len(af) * 10 >= Len(avail) * 3 THEN af ELSE avail
            ELSE avail
        Filtered(avail) == Gate(avail, FilterArtists(avail, ra))
    IN Filtered(FilterRecent(songs, rp))

\* a faulty reset: the artist history is left as it is
HistoryResetArtists(songs, rp, ra) ==
    LET keepRecent == Max(3, Len(rp) \div 5)
        Trimmed(rp1, d1) ==
            IF Len(d1) # 0
            THEN [pool |-> d1, rp |-> rp1, ra |-> ra, justCleared |-> TRUE]
            ELSE [pool |-> songs, rp |-> <<>>, ra |-> <<>>, justCleared |-> TRUE]
        Trim(rp1) == Trimmed(rp1, FilterRecent(songs, rp1))
        Reset(d0) ==
            IF Len(d0) # 0
            THEN [pool |-> d0, rp |-> rp, ra |-> ra, justCleared |-> FALSE]
            ELSE Trim(LastN(rp, keepRecent))
    IN Reset(DiverseSongs(songs, rp, ra))

\* lines 959-988: history trim / clear; the histories and the pool after it
HistoryReset(songs, rp, ra) ==
    LET keepRecent == Max(3, Len(rp) \div 5)
        Trimmed(rp1, ra1, d1) ==
            IF Len(d1) # 0
            THEN [pool |-> d1, rp |-> rp1, ra |-> ra1, justCleared |-> TRUE]
            ELSE [pool |-> songs, rp |-> <<>>, ra |-> <<>>, justCleared |-> TRUE]
        Trim(rp1) == Trimmed(rp1, LastN(ra, 2), FilterRecent(songs, rp1))
        Reset(d0) ==
            IF Len(d0) # 0
            THEN [pool |-> d0, rp |-> rp, ra |-> ra, justCleared |-> FALSE]
            ELSE Trim(LastN(rp, keepRecent))
    IN Reset(DiverseSongs(songs, rp, ra))

\* a faulty weight: the sum is not capped
WeightUncapped(c) ==
    Max(1, CeilLog2(c.user_count + 1) + CeilLog2(c.total_requests + 1))

\* lines 1001-1006
Weight(c) ==
    Max(1, Min(CeilLog2(c.user_count + 1) + CeilLog2(c.total_requests + 1), 5))

\* the sum of the weights of pool[lo..hi]
RECURSIVE SumWeights(_, _, _)
SumWeights(pool, lo, hi) ==
    IF lo > hi THEN 0
    ELSE IF lo = hi THEN Weight(pool[lo])
    ELSE SumWeights(pool, lo, (lo + hi) \div 2)
         + SumWeights(pool, ((lo + hi) \div 2) + 1, hi)

\* lines 1008-1014: cumulativeWeights[i] is the totalWeight after i weights
CumulativeWeights(pool) == [i \in 1..Len(pool) |-> SumWeights(pool, 1, i)]

\* lines 1017-1028, on 0-based indexes; random = totalWeight * pick / RandDen
RECURSIVE BinarySearch(_, _, _, _)
BinarySearch(cw, pick, left, right) ==
    IF left < right
    THEN LET mid == (left + right) \div 2
         IN IF cw[mid + 1] * RandDen < pick * cw[Len(cw)]
            THEN BinarySearch(cw, pick, mid + 1, right)
            ELSE BinarySearch(cw, pick, left, mid)
    ELSE left

\* lines 990-1032: the 1-based index of randomSong in the pool
SelectIndex(songs, pool, justCleared, coin, pick) ==
    LET useUniformRandom == justCleared \/ (Len(pool) * 2 < Len(songs))
    IN IF useUniformRandom /\ coin
       THEN ((pick * Len(pool)) \div RandDen) + 1
       ELSE BinarySearch(CumulativeWeights(pool), pick, 0, Len(pool) - 1) + 1

\* lines 1000-1030: the weighted branch alone, the 1-based index of randomSong
WeightedIndex(pool, pick) ==
    BinarySearch(CumulativeWeights(pool), pick, 0, Len(pool) - 1) + 1

\* the weighted branch of the older musicQueue.js (920-927): every song is
\* repeated weight times in weightedSongs, here as its index in the pool, and
\* the song at Math.floor(Math.random() * weightedSongs.length) is taken
RECURSIVE WeightedSongs(_, _)
WeightedSongs(pool, i) ==
    IF i > Len(pool) THEN <<>>
    ELSE [k \in 1..Weight(pool[i]) |-> i] \o WeightedSongs(pool, i + 1)

ExpandedIndex(pool, pick) ==
    LET At(weightedSongs) ==
            weightedSongs[((pick * Len(weightedSongs)) \div RandDen) + 1]
    IN At(WeightedSongs(pool, 1))

\* a faulty push: the history is never evicted
PushHistoryKeep(rp, url, cap) == Append(rp, url)

\* lines 1041-1045
PushHistory(rp, url, cap) == LastN(Append(rp, url), cap)

\* lines 1047-1053
PushArtist(ra, artist, cap) ==
    IF artist # "" /\ artist # "Unknown" THEN LastN(Append(ra, artist), cap) ELSE ra

\* the whole selection: the chosen candidate and the histories after it
RadioSelect(songs, rp, ra, coin, pick) ==
    LET Chosen(h, randomSong) ==
            [song |-> randomSong,
             recentlyPlayed |->
                 PushHistory(h.rp, randomSong.song_url, maxHistorySize(songs)),
             recentArtists |->
                 PushArtist(h.ra, randomSong.song_artist, maxArtistHistory(songs)),
             justCleared |-> h.justCleared,
             from |-> IF h.justCleared THEN 0 ELSE Len(h.pool),
             cands |-> Len(h.pool)]
        From(h) ==
            Chosen(h, h.pool[SelectIndex(songs, h.pool, h.justCleared, coin, pick)])
    IN From(HistoryReset(songs, rp, ra))

----------------------------------------------------------------------------
(* The MusicQueue object as one record, and the handlers as operators on it *)

\* the empty history records of one handler run: no radio selection, no
\* playDiscoverySong call, no connect() that failed, no playSong on a track
\* that fails its validation, no retry scheduled
NoConnect == [failed |-> FALSE, advanced |-> FALSE]
NoMalformed == [on |-> FALSE, notice |-> FALSE]
NoBackoff == [on |-> FALSE, n |-> 0, ms |-> 0]
NoEmpty == [case |-> "none", mode |-> FALSE]
NoPick == [on |-> FALSE, pool |-> <<>>, pick |-> 0, weights |-> <<>>,
           randomSong |-> 0, expanded |-> 0]
NoSelection == [url |-> "", before |-> <<>>, cleared |-> FALSE, artists |-> <<>>,
                artist |-> "", from |-> 0, cands |-> 0]
NoDiscovery == [on |-> FALSE, users |-> FALSE, known |-> {}, search |-> "none",
                results |-> <<>>, radio |-> FALSE, started |-> FALSE]

W == [queue |-> queue, currentSong |-> currentSong, isPlaying |-> isPlaying,
      radioMode |-> radioMode, discoveryMode |-> discoveryMode,
      recentlyPlayed |-> recentlyPlayed, recentArtists |-> recentArtists,
      currentVolume |-> currentVolume, fadeInterval |-> fadeInterval,
      retryCount |-> retryCount, failedUrls |-> failedUrls,
      connection |-> connection, textChannel |-> textChannel,
      voiceChannel |-> voiceChannel, player |-> player, pending |-> pending,
      members |-> members,
      hist |-> [hist EXCEPT !.sel = NoSelection, !.disc = NoDiscovery,
                            !.conn = NoConnect, !.mal = NoMalformed,
                            !.backoff = NoBackoff, !.empty = NoEmpty],
      budget |-> budget]

Becomes(w) ==
    /\ queue' = w.queue
    /\ currentSong' = w.currentSong
    /\ isPlaying' = w.isPlaying
    /\ radioMode' = w.radioMode
    /\ discoveryMode' = w.discoveryMode
    /\ recentlyPlayed' = w.recentlyPlayed
    /\ recentArtists' = w.recentArtists
    /\ currentVolume' = w.currentVolume
    /\ fadeInterval' = w.fadeInterval
    /\ retryCount' = w.retryCount
    /\ failedUrls' = w.failedUrls
    /\ connection' = w.connection
    /\ textChannel' = w.textChannel
    /\ voiceChannel' = w.voiceChannel
    /\ player' = w.player
    /\ pending' = w.pending
    /\ members' = w.members
    /\ hist' = w.hist
    /\ budget' = w.budget
    /\ UNCHANGED <<guildQueues, objects, database, ytdlp, intervals>>

\* what the environment supplies to one handler run: whether the voice channel
\* has non-bot members, the result of getMultipleUsersSongs, and the values
\* of Math.random() (disc: < 0.3, coin: < 0.5, pick / RandDen: an index)
Library == <<Cand("a", "x", 2, 3), Cand("b", "Unknown", 1, 1)>>
Pools == {SubSeq(Library, 1, n) : n \in 0..Len(Library)}
Choices == [users : BOOLEAN, songs : Pools, disc : BOOLEAN, coin : BOOLEAN,
            pick : 0..(RandDen - 1)]
NoChoice == [users |-> FALSE, songs |-> <<>>, disc |-> FALSE, coin |-> FALSE, pick |-> 0]

\* the inputs a handler run on w can read: none unless it selects a radio or
\* discovery track; members only of a voice channel; Math.random() < 0.3 only
\* in discovery mode; an index only into a list of two or more
ChoicesFor(w, radio) ==
    IF ~radio \/ ~w.voiceChannel THEN {NoChoice}
    ELSE {c \in Choices :
            /\ c.users \/ c = NoChoice
            /\ c.disc => w.discoveryMode /\ c.songs # <<>>
            /\ c.disc \/ Len(c.songs) <= 1 => ~c.coin /\ c.pick = 0}

\* history variables: sel and disc describe the handler run that led to the
\* state, the others the session so far

\* the playDiscoverySong call of the run: what it read (members in the channel,
\* the urls of the library, the search and its results) and what it invoked
\* (playRadioSong, playSong with a discovery track)
NoteDiscovery(w, users, known, search, results) ==
    [w EXCEPT !.hist.disc = [on |-> TRUE, users |-> users, known |-> known,
                             search |-> search, results |-> results,
                             radio |-> FALSE, started |-> FALSE]]
NoteRadio(w) == IF w.hist.disc.on THEN [w EXCEPT !.hist.disc.radio = TRUE] ELSE w
NoRamp == [out |-> <<>>, in |-> <<>>]
NoIdle == [on |-> FALSE, notices |-> 0, silent |-> 0, attempts |-> FALSE]
NoteAttempt(w) == IF w.hist.idle.on THEN [w EXCEPT !.hist.idle.attempts = TRUE] ELSE w
NoteChoice(w, by) ==
    [w EXCEPT !.hist.choice = [by |-> by, queued |-> by # "user" /\ w.queue # <<>>],
              !.hist.disc.started = @ \/ by = "discovery"]

\* the AudioPlayer of @discordjs/voice
playerPlay(w, u) ==
    NoteAttempt([w EXCEPT !.player = [status |-> "playing", res |-> u, ending |-> FALSE]])
playerStop(w) ==
    IF w.player.status = "idle" THEN w ELSE [w EXCEPT !.player.ending = TRUE]

clearFadeInterval(w) == [w EXCEPT !.fadeInterval = NoFade]

\* a faulty pause: a second pause resumes
pauseToggle(w) ==
    IF w.player.status = "playing" THEN [w EXCEPT !.player.status = "paused"]
    ELSE IF w.player.status = "paused" THEN [w EXCEPT !.player.status = "playing"]
    ELSE w

\* pause (1163-1165): player.pause() acts on a playing player only
pause(w) ==
    IF w.player.status = "playing" THEN [w EXCEPT !.player.status = "paused"] ELSE w

\* resume (1167-1169): player.unpause() acts on a paused player only
resume(w) ==
    IF w.player.status = "paused" THEN [w EXCEPT !.player.status = "playing"] ELSE w

\* a faulty clear: it stops the current track as well
clearStop(w) == playerStop([w EXCEPT !.queue = <<>>])

\* clear (1171-1173)
clear(w) == [w EXCEPT !.queue = <<>>]

\* skip (1159-1161); hist.skipped: a current track was skipped and the player
\* has not emitted Idle since
skip(w) ==
    playerStop([w EXCEPT !.hist.skipped = @ \/ (w.isPlaying /\ w.currentSong # NoSong)])

\* fadeOutAndSkip (174-183) to the first tick of the interval; the caller
\* awaits the promise, which the last tick resolves: "fadeWait" is the caller
\* suspended at `await this.fadeOutAndSkip()` (876)
fadeOutAndSkip(w) ==
    Spawn([w EXCEPT !.fadeInterval = [kind |-> "out", step |-> 0]], Timer("fadeWait"))

fadeIn(w) == [w EXCEPT !.fadeInterval = [kind |-> "in", step |-> 0], !.currentVolume = 0]

BlankUrls == {"undefined", " "}

\* the urls that fail the validation of playSong; "" is the url that is
\* missing (undefined, null) or empty
MalformedUrls == BlankUrls \cup {""}

\* hist.mal: playSong threw on the validation of its track in this handler
\* run, and whether its catch block sent "Failed to play" (729-731)
NoteMalformed(w) == [w EXCEPT !.hist.mal = [on |-> TRUE, notice |-> w.textChannel]]

\* a faulty catch block: playNext is not scheduled
playSongCatchSilent(w, url) ==
    [w EXCEPT !.isPlaying = FALSE,
              !.hist.failing = TRUE,
              !.hist.abandoned = IF url \in BlankUrls \cup {""} THEN @ ELSE @ \cup {url}]

\* playSong, the catch block (725-736)
playSongCatch(w, url) ==
    Spawn([w EXCEPT !.isPlaying = FALSE,
                    !.hist.failing = TRUE,
                    !.hist.abandoned = IF url \in BlankUrls \cup {""} THEN @
                                       ELSE @ \cup {url}],
          Timer("nextTimer"))

\* a faulty playSong: the track is not validated
playSongUnchecked(w, song) ==
    Spawn(NoteAttempt([w EXCEPT !.currentSong = song, !.isPlaying = TRUE]),
          Task("stream", song.url, {}))

\* playSong up to `await this.playWithLocalStream(song)` (632-654)
playSong(w, song) ==
    IF song = NoSong \/ song.url = ""
    THEN playSongCatch(NoteMalformed(w), song.url)
    ELSE LET w1 == [w EXCEPT !.currentSong = song, !.isPlaying = TRUE]
         IN IF song.url \in BlankUrls
            THEN playSongCatch(NoteMalformed(w1), song.url)
            ELSE Spawn(NoteAttempt(w1), Task("stream", song.url, {}))

\* hist.empty: playRadioSong returned in this handler run without a track, for
\* want of listeners ("users") or of songs ("songs"); mode is this.radioMode
\* as the call found it
NoteEmpty(w, case) == [w EXCEPT !.hist.empty = [case |-> case, mode |-> w.radioMode]]

\* playRadioSong from its selection on (924-1059)
radioSelected(w, c) ==
         LET radioSong(randomSong) ==
                 [url |-> randomSong.song_url, by |-> "radio",
                  artist |-> IF randomSong.song_artist = "" THEN "Unknown"
                             ELSE randomSong.song_artist,
                  seq |-> 0, prio |-> FALSE, at |-> 0]
             Selected(r) ==
                 playSong(NoteChoice([w EXCEPT !.recentlyPlayed = r.recentlyPlayed,
                                               !.recentArtists = r.recentArtists,
                                               !.hist.pool = Len(c.songs),
                                               !.hist.sel =
                                                   [url |-> r.song.song_url,
                                                    before |-> w.recentlyPlayed,
                                                    cleared |-> r.justCleared,
                                                    artists |-> w.recentArtists,
                                                    artist |-> r.song.song_artist,
                                                    from |-> r.from,
                                                    cands |-> r.cands]],
                                     "radio"),
                          radioSong(r.song))
         IN Selected(RadioSelect(c.songs, w.recentlyPlayed, w.recentArtists,
                                 c.coin, c.pick))

\* a faulty playRadioSong: radio mode is left on when the library is empty
playRadioSongOn(w0, c) ==
    LET w == NoteRadio(w0) IN
    IF ~(w.voiceChannel /\ c.users) THEN NoteEmpty(w, "users")
    ELSE IF c.songs = <<>> THEN NoteEmpty(w, "songs")
    ELSE radioSelected(w, c)

\* playRadioSong (902-1059).  activeUsers is empty whenever voiceChannel is
\* null: cleanup clears both and only connect sets voiceChannel.
playRadioSong(w0, c) ==
    LET w == NoteRadio(w0) IN
    IF ~(w.voiceChannel /\ c.users) THEN NoteEmpty(w, "users")
    ELSE IF c.songs = <<>> THEN [NoteEmpty(w, "songs") EXCEPT !.radioMode = FALSE]
    ELSE radioSelected(w, c)

\* playDiscoverySong up to `await play.search(...)` (1069-1112)
playDiscoverySong(w0, c) ==
    LET known == {c.songs[i].song_url : i \in DOMAIN c.songs}
        w == NoteDiscovery(w0, w0.voiceChannel /\ c.users, known, "pending", <<>>)
    IN IF ~(w.voiceChannel /\ c.users) \/ c.songs = <<>>
       THEN playRadioSong(w, c)
       ELSE Spawn(w, Task("search", "", known))

\* playNext after the fade-out of the current song (881-899)
playNextTail(w, c) ==
    LET w0 == [w EXCEPT !.hist.failing = FALSE] IN
    IF Len(w0.queue) > 0
    THEN LET nextSong == Head(w0.queue)
         IN playSong(NoteChoice([w0 EXCEPT !.queue = Tail(@),
                                           !.hist.drained = Append(@, nextSong)], "user"),
                     nextSong)
    ELSE IF w0.radioMode
    THEN IF w0.discoveryMode /\ c.disc
         THEN playDiscoverySong(w0, c)
         ELSE playRadioSong(w0, c)
    ELSE [w0 EXCEPT !.currentSong = NoSong,
                    !.hist.idle = [on |-> TRUE,
                                   notices |-> IF w0.textChannel THEN Min(@.notices + 1, 2)
                                               ELSE @.notices,
                                   silent |-> IF w0.textChannel THEN @.silent
                                              ELSE Min(@.silent + 1, 2),
                                   attempts |-> @.attempts]]

\* hist.conn: connect() returned false in this handler run, and playNext was
\* called after that
NoteAdvance(w) == IF w.hist.conn.failed THEN [w EXCEPT !.hist.conn.advanced = TRUE] ELSE w

\* playNext up to its first await (872-879)
playNext(w0, c) ==
    LET Advance(w) ==
            IF w.isPlaying /\ w.currentSong # NoSong
            THEN fadeOutAndSkip(clearFadeInterval(w))
            ELSE playNextTail(w, c)
    IN Advance(NoteAdvance(w0))

\* a faulty Idle handler: it forgets the failed urls with the retry count
onIdleForgets(w, c) ==
    playNext([clearFadeInterval([w EXCEPT !.isPlaying = FALSE])
                  EXCEPT !.currentVolume = fadeSteps, !.retryCount = 0,
                         !.failedUrls = {}], c)

\* player.on(AudioPlayerStatus.Idle) (87-93)
onIdle(w, c) ==
    playNext([clearFadeInterval([w EXCEPT !.isPlaying = FALSE])
                  EXCEPT !.currentVolume = fadeSteps, !.retryCount = 0,
                         !.hist.skipped = FALSE], c)

\* a faulty backoff: it grows by a second with each retry
backoffLinear(n) == Min(1000 * n, 5000)

\* Math.min(1000 * Math.pow(2, this.retryCount - 1), 5000) (108)
backoffMs(n) == Min(1000 * Pow2(n - 1), 5000)

\* hist.backoff: the retry that the error handler scheduled in this run, its
\* number (this.retryCount after line 106) and the delay of its timer
ScheduleRetry(w) ==
    Spawn([w EXCEPT !.hist.backoff = [on |-> TRUE, n |-> w.retryCount,
                                      ms |-> backoffMs(w.retryCount)]],
          Timer("retryTimer"))

\* a faulty error handler: it retries whatever the retry count is
onErrorUnbounded(w, c) ==
    LET w1 == [clearFadeInterval([w EXCEPT !.isPlaying = FALSE])
                   EXCEPT !.currentVolume = fadeSteps, !.hist.failing = TRUE]
    IN IF w1.currentSong # NoSong /\ w1.currentSong.url \notin w1.failedUrls
       THEN ScheduleRetry([w1 EXCEPT !.retryCount = @ + 1])
       ELSE playNext([w1 EXCEPT !.retryCount = 0], c)

\* player.on('error') (95-137)
onError(w, c) ==
    LET w1 == [clearFadeInterval([w EXCEPT !.isPlaying = FALSE])
                   EXCEPT !.currentVolume = fadeSteps, !.hist.failing = TRUE]
    IN IF /\ w1.currentSong # NoSong
          /\ w1.retryCount < maxRetries
          /\ w1.currentSong.url \notin w1.failedUrls
       THEN ScheduleRetry([w1 EXCEPT !.retryCount = @ + 1])
       ELSE LET w2 == IF w1.currentSong # NoSong /\ w1.retryCount >= maxRetries
                      THEN [w1 EXCEPT !.failedUrls = @ \cup {w1.currentSong.url}]
                      ELSE w1
                w3 == [w2 EXCEPT !.retryCount = 0,
                                 !.hist.abandoned = IF w1.currentSong = NoSong THEN @
                                                    ELSE @ \cup {w1.currentSong.url}]
            IN playNext(w3, c)

\* cleanup (1239-1259)
cleanup(w) ==
    playerStop([w EXCEPT !.queue = <<>>, !.currentSong = NoSong, !.connection = FALSE,
                         !.isPlaying = FALSE, !.textChannel = FALSE,
                         !.voiceChannel = FALSE, !.radioMode = FALSE,
                         !.discoveryMode = FALSE, !.recentlyPlayed = <<>>,
                         !.recentArtists = <<>>, !.retryCount = 0, !.failedUrls = {},
                         !.hist.resets = @ + 1, !.hist.abandoned = {},
                         !.hist.clean = TRUE, !.hist.skipped = FALSE])

\* connect (237-314): ok is whether the connection became Ready
connect(w, ok) ==
    [w EXCEPT !.voiceChannel = TRUE, !.textChannel = TRUE, !.connection = ok,
              !.budget.fails = IF ok THEN @ ELSE @ - 1,
              !.hist.conn.failed = ~ok]

\* setRadioMode (1183-1188)
setRadioMode(w, enabled, c) ==
    LET w1 == [w EXCEPT !.radioMode = enabled]
    IN IF enabled /\ ~w1.isPlaying THEN playRadioSong(w1, c) ELSE w1

\* a faulty enqueue: a priority track goes to the back like any other
addSongBack(w, u, priority) ==
    LET song == UserSong(u, w.hist.nextSeq, priority, Len(w.hist.drained))
    IN [w EXCEPT !.queue = Append(@, song),
                 !.hist.nextSeq = @ + 1,
                 !.hist.idle = NoIdle,
                 !.hist.clean = FALSE]

\* addSong, the enqueue (465-473)
addSong(w, u, priority) ==
    LET song == UserSong(u, w.hist.nextSeq, priority, Len(w.hist.drained))
    IN [w EXCEPT !.queue = IF priority THEN <<song>> \o @ ELSE Append(@, song),
                 !.hist.nextSeq = @ + 1,
                 !.hist.idle = NoIdle,
                 !.hist.clean = FALSE]

\* addPlaylist (594-619)
RECURSIVE pushAll(_, _)
pushAll(w, videos) ==
    IF videos = <<>> THEN w
    ELSE pushAll(addSong(w, Head(videos), FALSE), Tail(videos))

addPlaylist(w, videos) ==
    LET w1 == pushAll(w, videos)
    IN IF w1.radioMode /\ w1.isPlaying /\ w1.currentSong.by = "radio"
       THEN skip(w1)
       ELSE w1

\* a faulty tick: the fade-out computes its gain like the fade-in
fadeTickUp(w) ==
    LET currentStep == w.fadeInterval.step + 1
        w1 == [w EXCEPT !.fadeInterval.step = currentStep,
                        !.currentVolume = Min(fadeSteps, currentStep)]
    IN IF currentStep < fadeSteps THEN w1
       ELSE IF w.fadeInterval.kind = "out"
       THEN Spawn(Resume(playerStop(clearFadeInterval(w1)), Timer("fadeWait")),
                  Timer("delay"))
       ELSE clearFadeInterval(w1)

\* one tick of the interval of fadeOutAndSkip (183-200) or fadeIn (220-234)
fadeTick(w) ==
    LET currentStep == w.fadeInterval.step + 1
    IN IF w.fadeInterval.kind = "out"
       THEN LET w1 == [w EXCEPT !.fadeInterval.step = currentStep,
                                !.currentVolume = Max(0, fadeSteps - currentStep)]
            IN IF currentStep >= fadeSteps
               THEN Spawn(Resume(playerStop(clearFadeInterval(w1)), Timer("fadeWait")),
                          Timer("delay"))
               ELSE w1
       ELSE LET w1 == [w EXCEPT !.fadeInterval.step = currentStep,
                                !.currentVolume = Min(fadeSteps, currentStep)]
            IN IF currentStep >= fadeSteps THEN clearFadeInterval(w1) ELSE w1

\* playDiscoverySong after `await play.search(...)` (1114-1156)
Playlists == {<<"a", "b">>}
SearchResults == {<<>>, <<"a">>, <<"n">>}

\* a faulty fallback: with every result already known, the first one is played
discoveryFoundKnown(w0, known, results, c) ==
    LET w == NoteDiscovery(w0, TRUE, known, "done", results)
    IN IF Len(results) = 0
       THEN playRadioSong(w, c)
       ELSE playSong(NoteChoice(w, "discovery"),
                     [url |-> results[1], by |-> "discovery", artist |-> "Unknown",
                      seq |-> 0, prio |-> FALSE, at |-> 0])

discoveryFound(w0, known, results, c) ==
    LET w == NoteDiscovery(w0, TRUE, known, "done", results)
        New(u) == u \notin known
        newSongs == SelectSeq(results, New)
        discovered == newSongs[((c.pick * Len(newSongs)) \div RandDen) + 1]
    IN IF Len(results) = 0 \/ Len(newSongs) = 0
       THEN playRadioSong(w, c)
       ELSE playSong(NoteChoice(w, "discovery"),
                     [url |-> discovered, by |-> "discovery", artist |-> "Unknown",
                      seq |-> 0, prio |-> FALSE, at |-> 0])

\* playDiscoverySong, the catch block (1149-1156)
discoveryCatch(w, known) ==
    Spawn(NoteDiscovery(w, TRUE, known, "threw", <<>>), Timer("radioTimer"))

----------------------------------------------------------------------------
(* Actions *)

NeedsRadio(w) == w.radioMode /\ w.queue = <<>>
Spend(w, what) == [w EXCEPT !.budget[what] = @ - 1]
Has(t) == BagIn(t, pending)
ConnectIfNeeded(w, ok) == IF w.connection THEN w ELSE connect(w, ok)
\* whether a connection becomes Ready: its failures are bounded like the others
ConnectOutcomes == IF connection \/ budget.fails = 0 THEN {TRUE} ELSE BOOLEAN

\* handlePlayCommand (part_004:317-371): addSong, connect if there is no
\* connection, playNext if nothing is playing
handlePlayCommand(w, u, priority, ok) ==
    LET Added(w1) == IF w1.connection /\ ~w1.isPlaying THEN playNext(w1, NoChoice) ELSE w1
    IN Added(ConnectIfNeeded(addSong(w, u, priority), ok))

PlayCommand ==
    /\ budget.adds > 0
    /\ \E u \in Urls, priority \in BOOLEAN, ok \in ConnectOutcomes :
          Becomes(handlePlayCommand(Spend(W, "adds"), u, priority, ok))

\* handlePlaySongModalSubmit (contextMenuHandlers.js:206-230): addSong, connect
\* if there is no connection, playNext if nothing is playing
handlePlaySongModalSubmit(w, u, priority, ok) ==
    LET Added(w1) == IF ~w1.isPlaying THEN playNext(w1, NoChoice) ELSE w1
    IN Added(ConnectIfNeeded(addSong(w, u, priority), ok))

PlaySongModal ==
    /\ budget.adds > 0
    /\ \E u \in Urls, priority \in BOOLEAN, ok \in ConnectOutcomes :
          Becomes(handlePlaySongModalSubmit(Spend(W, "adds"), u, priority, ok))

\* handlePlaylistCommand (part_004:517-532): connect, addPlaylist, playNext if
\* nothing is playing
handlePlaylistCommand(w, videos, ok) ==
    LET Added(w2) == IF ~w2.isPlaying THEN playNext(w2, NoChoice) ELSE w2
        Connected(w1) == IF ~w1.connection THEN w1 ELSE Added(addPlaylist(w1, videos))
    IN Connected(ConnectIfNeeded(w, ok))

PlaylistCommand ==
    /\ budget.adds > 0
    /\ \E videos \in Playlists, ok \in ConnectOutcomes :
          Becomes(handlePlaylistCommand(Spend(W, "adds"), videos, ok))

\* handleRadioCommand (part_004:627-656): connect if there is no connection,
\* setRadioMode, playNext if radio was enabled and nothing is playing
handleRadioCommand(w, enabled, ok, c) ==
    LET Toggled(w2) == IF enabled /\ ~w2.isPlaying THEN playNext(w2, c) ELSE w2
        Connected(w1) ==
            IF ~w1.connection THEN w1
            ELSE Toggled(setRadioMode([w1 EXCEPT !.hist.idle = NoIdle,
                                                 !.hist.clean = FALSE],
                                      enabled, c))
    IN Connected(ConnectIfNeeded(w, ok))

RadioCommand ==
    /\ budget.cmds > 0
    /\ \E enabled \in BOOLEAN, ok \in ConnectOutcomes :
          \E c \in ChoicesFor(ConnectIfNeeded(W, ok), enabled) :
             Becomes(handleRadioCommand(Spend(W, "cmds"), enabled, ok, c))

\* handleDiscoveryCommand (part_004:659-668) with setDiscoveryMode (1190-1193)
DiscoveryCommand ==
    /\ budget.cmds > 0
    /\ radioMode
    /\ \E enabled \in BOOLEAN :
          Becomes([Spend(W, "cmds") EXCEPT !.discoveryMode = enabled,
                                           !.hist.idle = NoIdle, !.hist.clean = FALSE])

\* handleSkipCommand (part_004:539-546)
SkipCommand ==
    /\ budget.cmds > 0
    /\ isPlaying
    /\ Becomes(skip(Spend(W, "cmds")))

\* handlePauseCommand (part_004:578-584)
PauseCommand ==
    /\ budget.cmds > 0
    /\ isPlaying
    /\ Becomes(pause(Spend(W, "cmds")))

\* handleResumeCommand (part_004:589-590)
ResumeCommand ==
    Becomes(resume(W))

\* handleClearCommand (part_004:595-597)
ClearCommand ==
    /\ budget.cmds > 0
    /\ Becomes(clear(Spend(W, "cmds")))

\* disconnect (1225-1237), from handleLeaveCommand (part_004:602-608), and the
\* failed reconnect of the Disconnected handler (256-268)
Disconnect ==
    /\ budget.resets > 0
    /\ connection
    /\ Becomes(cleanup(Spend(W, "resets")))

\* the player ends the resource (its natural end, or after stop()) and emits Idle
PlayerIdle ==
    /\ player.status = "playing" \/ (player.status = "paused" /\ player.ending)
    /\ \E c \in ChoicesFor(W, NeedsRadio(W)) :
          Becomes(onIdle([W EXCEPT !.player = IdlePlayer], c))

\* the stream of the resource fails: the player emits error and drops the
\* resource; emitsIdle is whether it emits Idle for that, right after error
PlayerError ==
    /\ budget.errors > 0
    /\ player.status # "idle"
    /\ \E emitsIdle \in BOOLEAN, c \in ChoicesFor(W, NeedsRadio(W)) :
          LET Errored(w1) == IF emitsIdle THEN onIdle(w1, c) ELSE w1
          IN Becomes(Errored(onError([Spend(W, "errors") EXCEPT !.player = IdlePlayer], c)))

\* the ticks of one ramp.  A tick before the last one changes currentVolume and
\* the step of the interval only, which no handler reads and the next tick
\* overwrites, so the ticks that are left of the ramp are taken together: the
\* ramp is at its last tick.
fadeRun(w) == fadeTick([w EXCEPT !.fadeInterval.step = fadeSteps - 1])

FadeRun ==
    /\ fadeInterval.kind # "none"
    /\ Becomes(fadeRun(W))

\* playNext after `await new Promise(resolve => setTimeout(resolve, 100))` (878)
DelayDone ==
    /\ Has(Timer("delay"))
    /\ \E c \in ChoicesFor(W, NeedsRadio(W)) :
          Becomes(playNextTail(Resume(W, Timer("delay")), c))

\* playWithLocalStream resolves: player.play(resource), then playSong goes on
\* to fadeIn (843-845, 656-662)
StreamReady ==
    \E t \in BagToSet(pending) :
       /\ t.k = "stream"
       /\ Becomes(fadeIn(clearFadeInterval(playerPlay(Resume(W, t), t.url))))

\* playWithLocalStream rejects (spawn error, exit code, 15 s timeout): 814-863
StreamFail ==
    /\ budget.fails > 0
    /\ \E t \in BagToSet(pending) :
          /\ t.k = "stream"
          /\ Becomes(playSongCatch(Spend(Resume(W, t), "fails"), t.url))

\* setTimeout(() => this.playNext(), 1000) (734)
NextTimerFire ==
    /\ Has(Timer("nextTimer"))
    /\ \E c \in ChoicesFor(W, NeedsRadio(W)) :
          Becomes(playNext(Resume(W, Timer("nextTimer")), c))

\* setTimeout(() => this.playSong(this.currentSong), backoffMs) (115-119)
RetryTimerFire ==
    /\ Has(Timer("retryTimer"))
    /\ Becomes(playSong(Resume(W, Timer("retryTimer")), currentSong))

\* setTimeout(() => this.playRadioSong(), 2000) (1065, 1155)
RadioTimerFire ==
    /\ Has(Timer("radioTimer"))
    /\ \E c \in ChoicesFor(W, TRUE) :
          Becomes(playRadioSong(Resume(W, Timer("radioTimer")), c))

\* play.search settles (1112)
SearchDone ==
    \E t \in BagToSet(pending) :
       /\ t.k = "search"
       /\ \/ \E results \in SearchResults, c \in ChoicesFor(W, TRUE) :
                Becomes(discoveryFound(Resume(W, t), t.known, results, c))
          \/ /\ budget.fails > 0
             /\ Becomes(discoveryCatch(Spend(Resume(W, t), "fails"), t.known))

Guilds == {"g1", "g2"}

\* the timers of the ramps: live holds the intervals that were set and not
\* cleared, each with the currentStep of its callback; handle is
\* this.fadeInterval (0 for null); cancelled is the interval that was cleared
\* last, as it was then
NoInterval == [id |-> 0, kind |-> "none", step |-> 0]
NoIntervals == [handle |-> 0, live |-> {}, created |-> 0, cancelled |-> NoInterval]

\* database.js after initDatabase on a new file: no row, nothing cached, the
\* file written (477) and the periodic save running (480).
\* log is the bag of the requests recorded so far, out the latest call of
\* getMultipleUsersSongs and what it returned.  saveTimeout and
\* periodicSaveInterval: the timer is scheduled; disk: the tables in the file;
\* lastSave: how the latest saveDatabaseImmediate since the latest write
\* ended; shut: shutdownDatabase was called.
NoQuery == [on |-> FALSE, userIds |-> <<>>, limit |-> 0, rows |-> <<>>]
Opened ==
    [user_songs |-> {}, song_ratings |-> {}, queryCache |-> {}, now |-> 0,
     log |-> EmptyBag, out |-> NoQuery,
     isDirty |-> FALSE, saveTimeout |-> FALSE, periodicSaveInterval |-> TRUE,
     disk |-> [user_songs |-> {}, song_ratings |-> {}],
     lastSave |-> "ok", shut |-> FALSE]

\* no yt-dlp process was spawned.  Of an acquisition: hasResolved, the state
\* of its Promise with the resolve() and reject() calls made, the
\* player.play() calls made, the 15 s timer and the events emitted so far
NoProcess ==
    [url |-> "", hasResolved |-> FALSE, settled |-> "none", resolves |-> 0,
     rejects |-> 0, attached |-> 0, timeout |-> "none", seen |-> {}]

\* the history variables of a session that has done nothing
NoHistory ==
    [drained |-> <<>>, nextSeq |-> 1,
     choice |-> [by |-> "none", queued |-> FALSE],
     idle |-> NoIdle, failing |-> FALSE, abandoned |-> {}, resets |-> 0,
     pool |-> 0, sel |-> NoSelection, ramp |-> NoRamp, disc |-> NoDiscovery,
     clean |-> FALSE, skipped |-> FALSE, conn |-> NoConnect,
     mal |-> NoMalformed, backoff |-> NoBackoff, pick |-> NoPick,
     empty |-> NoEmpty]

\* the constructor (60-84), in a guild with one listener in its voice channel
Constructed ==
    /\ queue = <<>>
    /\ currentSong = NoSong
    /\ isPlaying = FALSE
    /\ radioMode = FALSE
    /\ discoveryMode = FALSE
    /\ recentlyPlayed = <<>>
    /\ recentArtists = <<>>
    /\ currentVolume = fadeSteps
    /\ fadeInterval = NoFade
    /\ retryCount = 0
    /\ failedUrls = {}
    /\ connection = FALSE
    /\ textChannel = FALSE
    /\ voiceChannel = FALSE
    /\ player = IdlePlayer
    /\ pending = EmptyBag
    /\ members = 1
    /\ guildQueues = [g \in Guilds |-> 0]
    /\ objects = <<>>
    /\ database = Opened
    /\ ytdlp = NoProcess
    /\ intervals = NoIntervals
    /\ hist = NoHistory

Init == Constructed /\ budget \in Profiles

Next ==
    \/ PlayCommand \/ PlaylistCommand
    \/ RadioCommand \/ DiscoveryCommand \/ SkipCommand \/ PauseCommand
    \/ ResumeCommand \/ ClearCommand \/ Disconnect
    \/ PlayerIdle \/ PlayerError \/ FadeRun \/ DelayDone
    \/ StreamReady \/ StreamFail \/ NextTimerFire \/ RetryTimerFire
    \/ RadioTimerFire \/ SearchDone

Spec == Init /\ [][Next]_vars

----------------------------------------------------------------------------
(* The same session with fairness: what the code schedules happens.  A timer *)
(* fires, a running ramp ticks to its end, the stream of the media resolver  *)
(* settles (playWithLocalStream rejects after 15 s at the latest), a search  *)
(* settles, and a track that plays comes to its end; a paused track is       *)
(* assumed to be resumed.                                                    *)

Fairness ==
    /\ WF_vars(FadeRun)
    /\ WF_vars(DelayDone)
    /\ WF_vars(StreamReady \/ StreamFail)
    /\ WF_vars(NextTimerFire)
    /\ WF_vars(RetryTimerFire)
    /\ WF_vars(RadioTimerFire)
    /\ WF_vars(SearchDone)
    /\ WF_vars(PlayerIdle)
    /\ WF_vars(ResumeCommand)

\* the environments of the fair runs
FairProfiles ==
    { Budget(MaxAdds - 1, 0, MaxFails, 0, 0),
      Budget(MaxAdds - 1, MaxErrors, 0, 0, 0),
      Budget(1, MaxErrors, 0, 0, MaxResets),
      Budget(1, 0, 0, MaxCmds, 0),
      Budget(0, 0, MaxFails, MaxCmds, 0) }

InitFair == Constructed /\ budget \in FairProfiles

FairSpec == InitFair /\ [][Next]_vars /\ Fairness

----------------------------------------------------------------------------
(* A radio session on larger libraries: /radio on, then track after track    *)
(* selected by playRadioSong as the player comes to the end of each.  The    *)
(* result of getMultipleUsersSongs changes with the members of the voice     *)
(* channel: a prefix of one library, of a size drawn at each selection.      *)

MaxSelections == 3     \* selections with every input drawn
MaxRun == 52           \* selections of the long run on one pool
BigPool == 90          \* the size of that pool

RadioArtist(i) ==
    CASE i % 4 = 1 -> "x"
      [] i % 4 = 2 -> "Unknown"
      [] i % 4 = 3 -> "y"
      [] OTHER -> ""

RadioPool(n) == [i \in 1..n |-> Cand(ToString(i), RadioArtist(i), 1 + (i % 3), i)]

PoolSizes == {2, 7, 14}

RadioProfiles ==
    { [selects |-> MaxSelections, sizes |-> PoolSizes, coins |-> BOOLEAN,
       picks |-> 0..(RandDen - 1)],
      [selects |-> MaxRun, sizes |-> {BigPool}, coins |-> {FALSE}, picks |-> {0}] }

RadioChoices ==
    {[users |-> TRUE, songs |-> RadioPool(n), disc |-> FALSE, coin |-> k, pick |-> p] :
        n \in budget.sizes, k \in budget.coins, p \in budget.picks}

\* /radio on in a voice channel with members
RadioOn ==
    /\ ~radioMode
    /\ ~connection
    /\ budget.selects > 0
    /\ \E c \in RadioChoices :
          Becomes(handleRadioCommand(Spend(W, "selects"), TRUE, TRUE, c))

\* the player comes to the end of the track and emits Idle
RadioIdle ==
    /\ player.status = "playing"
    /\ budget.selects > 0
    /\ \E c \in RadioChoices :
          Becomes(onIdle([Spend(W, "selects") EXCEPT !.player = IdlePlayer], c))

InitRadio == Constructed /\ budget \in RadioProfiles

NextRadio == RadioOn \/ StreamReady \/ FadeRun \/ RadioIdle

SpecRadio == InitRadio /\ [][NextRadio]_vars

----------------------------------------------------------------------------
(* A radio session whose listeners and their library stay the same: every    *)
(* selection is made from the same pool, with every coin and every pick.     *)

MaxFixed == 6            \* selections from the one pool

FixedPools == {2, 3, 4, 5, 12}

FixedProfiles ==
    { [selects |-> MaxFixed, sizes |-> {n}, coins |-> BOOLEAN,
       picks |-> 0..(RandDen - 1)] : n \in FixedPools }

InitFixed == Constructed /\ budget \in FixedProfiles

SpecFixed == InitFixed /\ [][NextRadio]_vars

----------------------------------------------------------------------------
(* A radio session that has a history: it plays a radio track, the histories *)
(* hold urls and artists of earlier selections, made from the libraries of   *)
(* the listeners of then (up to 50 urls and 10 artists, as selections from   *)
(* 84 tracks or more leave them), and the player comes to the end of the     *)
(* track.  The library of the listeners of now is RadioPool(n).              *)

MaxHistory == 20         \* urls in recentlyPlayed at the start

HistoryPools == {2, 3, 14, 20}

Firsts(k) == [i \in 1..k |-> ToString(i)]
Evens(k) == [i \in 1..k |-> ToString(2 * i)]
Histories ==
    {Firsts(k) : k \in 0..MaxHistory} \cup {Evens(k) : k \in 1..(MaxHistory \div 2)}
ArtistHistories == {<<>>, <<"x">>, <<"x", "y">>, <<"y", "x", "y">>}

HistoryProfiles ==
    { [selects |-> 1, sizes |-> HistoryPools, coins |-> BOOLEAN,
       picks |-> 0..(RandDen - 1)] }

InitHistory ==
    /\ queue = <<>>
    /\ currentSong = [url |-> "0", by |-> "radio", artist |-> "Unknown", seq |-> 0,
                      prio |-> FALSE, at |-> 0]
    /\ isPlaying = TRUE
    /\ radioMode = TRUE
    /\ discoveryMode = FALSE
    /\ recentlyPlayed \in Histories
    /\ recentArtists \in ArtistHistories
    /\ currentVolume = fadeSteps
    /\ fadeInterval = NoFade
    /\ retryCount = 0
    /\ failedUrls = {}
    /\ connection = TRUE
    /\ textChannel = TRUE
    /\ voiceChannel = TRUE
    /\ player = [status |-> "playing", res |-> "0", ending |-> FALSE]
    /\ pending = EmptyBag
    /\ members = 1
    /\ guildQueues = [g \in Guilds |-> 0]
    /\ objects = <<>>
    /\ database = Opened
    /\ ytdlp = NoProcess
    /\ intervals = NoIntervals
    /\ hist = NoHistory
    /\ budget \in HistoryProfiles

NextHistory == RadioIdle \/ StreamReady \/ FadeRun

SpecHistory == InitHistory /\ [][NextHistory]_vars

----------------------------------------------------------------------------
(* A session with every tick of its ramps: tracks are added, a stream may    *)
(* fail, and the delayed playNext of the failure fades out the track that    *)
(* was started in between.  hist.ramp holds the gains (this.currentVolume,   *)
(* in steps of 1/fadeSteps) set so far by the ticks of the latest fade-out   *)
(* and of the latest fade-in: the tick with currentStep = 1 starts the       *)
(* record anew.                                                              *)

FadeProfiles == { Budget(MaxAdds - 1, 0, MaxFails, 0, 0) }

Sampled(w, w1) ==
    LET gains == IF w.fadeInterval.step = 0 THEN <<>>
                 ELSE w.hist.ramp[w.fadeInterval.kind]
    IN [w1 EXCEPT !.hist.ramp[w.fadeInterval.kind] = Append(gains, w1.currentVolume)]

\* the callback of setInterval runs once
FadeTick ==
    /\ fadeInterval.kind # "none"
    /\ Becomes(Sampled(W, fadeTick(W)))

InitFade == Constructed /\ budget \in FadeProfiles

NextFade ==
    \/ PlayCommand \/ StreamReady \/ StreamFail \/ NextTimerFire
    \/ FadeTick \/ DelayDone \/ PlayerIdle

SpecFade == InitFade /\ [][NextFade]_vars

----------------------------------------------------------------------------
(* A session whose tracks are added by /play and by the "Play Song" modal of *)
(* the context menu, with voice connections that may not become Ready.       *)

ConnectProfiles == { Budget(MaxAdds - 1, 0, MaxFails, 0, 0) }

InitConnect == Constructed /\ budget \in ConnectProfiles

NextConnect ==
    \/ PlayCommand \/ PlaySongModal \/ StreamReady \/ StreamFail
    \/ NextTimerFire \/ FadeRun \/ DelayDone \/ PlayerIdle

SpecConnect == InitConnect /\ [][NextConnect]_vars

----------------------------------------------------------------------------
(* A session that is handed tracks whose metadata has no usable url: the url *)
(* of a track is what the media resolver reported for it (381, 457), and     *)
(* addSong enqueues it as it is.  A retry timer that fires after the session *)
(* lost its current track calls playSong with no track at all.               *)

MalformedProfiles == { Budget(MaxAdds - 1, 1, MaxFails, 0, MaxResets) }

\* /play of a track whose url is one of the urls that fail the validation
PlayMalformed ==
    /\ budget.adds > 0
    /\ \E u \in MalformedUrls, priority \in BOOLEAN, ok \in ConnectOutcomes :
          Becomes(handlePlayCommand(Spend(W, "adds"), u, priority, ok))

InitMalformed == Constructed /\ budget \in MalformedProfiles

NextMalformed ==
    \/ PlayCommand \/ PlayMalformed \/ StreamReady \/ StreamFail
    \/ NextTimerFire \/ RetryTimerFire \/ FadeRun \/ DelayDone
    \/ PlayerIdle \/ PlayerError \/ Disconnect

SpecMalformed == InitMalformed /\ [][NextMalformed]_vars

----------------------------------------------------------------------------
(* A session with the voice-state events of its guild (part_005:216-239):    *)
(* listeners leave and join the voice channel, the handler of the event      *)
(* starts a 60 s timer when the channel is left without a listener, and the  *)
(* timer disconnects the session.  /play is taken in its two steps: addSong, *)
(* then, after the reply to the interaction was awaited, connect and         *)
(* playNext (part_004:317-371).                                              *)

MaxMembers == 2     \* listeners in the voice channel
MaxMoves == 4       \* voice-state events

VoiceProfiles ==
    { [adds |-> MaxAdds - 1, errors |-> 0, fails |-> 0, cmds |-> 0,
       resets |-> MaxResets, moves |-> MaxMoves] }

\* client.on(Events.VoiceStateUpdate) (part_005:216-239), for an event of the
\* channel of the session
onVoiceStateUpdate(w) ==
    IF w.voiceChannel /\ w.members = 0 /\ w.connection
    THEN Spawn(w, Timer("leaveTimer"))
    ELSE w

\* the callback of the 60 s timer (part_005:230-236): voiceChannel?.members is
\* undefined on a session without a voice channel
onLeaveTimer(w) ==
    IF ~w.voiceChannel \/ w.members = 0 THEN cleanup(w) ELSE w

\* a listener joins or leaves the voice channel
VoiceStateUpdate ==
    /\ budget.moves > 0
    /\ \E n \in {members - 1, members + 1} \cap 0..MaxMembers :
          Becomes(onVoiceStateUpdate([Spend(W, "moves") EXCEPT !.members = n]))

LeaveTimerFire ==
    /\ Has(Timer("leaveTimer"))
    /\ Becomes(onLeaveTimer(Resume(W, Timer("leaveTimer"))))

\* handlePlayCommand to `await interaction.editReply` (part_004:249, 317-346):
\* the user is in the voice channel, the track is added
PlayAdd ==
    /\ budget.adds > 0
    /\ members > 0
    /\ \E u \in Urls, priority \in BOOLEAN :
          Becomes(Spawn(addSong(Spend(W, "adds"), u, priority), Timer("reply")))

\* handlePlayCommand after it (part_004:349-371)
handlePlayCommandTail(w, ok) ==
    LET Added(w1) == IF w1.connection /\ ~w1.isPlaying THEN playNext(w1, NoChoice) ELSE w1
    IN Added(ConnectIfNeeded(w, ok))

PlayConnect ==
    /\ Has(Timer("reply"))
    /\ \E ok \in ConnectOutcomes :
          Becomes(handlePlayCommandTail(Resume(W, Timer("reply")), ok))

InitVoice == Constructed /\ budget \in VoiceProfiles

NextVoice ==
    \/ PlayAdd \/ PlayConnect \/ VoiceStateUpdate \/ LeaveTimerFire
    \/ Disconnect \/ StreamReady \/ FadeRun \/ PlayerIdle

SpecVoice == InitVoice /\ [][NextVoice]_vars

----------------------------------------------------------------------------
(* The sessions of two guilds (part_005:33, 86-92).  guildQueues maps a guild *)
(* id to a MusicQueue object, 0 for a guild without an entry; objects is the  *)
(* heap of the MusicQueue objects, an object id being an index into it.  An   *)
(* interaction of a guild creates the object of the guild if the Map has      *)
(* none, and runs its handler on it; the events of a player and the           *)
(* continuations run on the object they belong to.                            *)

GuildProfiles == { Budget(MaxAdds - 1, 0, 0, 0, 0) }

\* new MusicQueue(): the fields after the constructor (part_003:60-84)
NewMusicQueue(b) ==
    [queue |-> <<>>, currentSong |-> NoSong, isPlaying |-> FALSE,
     radioMode |-> FALSE, discoveryMode |-> FALSE,
     recentlyPlayed |-> <<>>, recentArtists |-> <<>>,
     currentVolume |-> fadeSteps, fadeInterval |-> NoFade,
     retryCount |-> 0, failedUrls |-> {},
     connection |-> FALSE, textChannel |-> FALSE, voiceChannel |-> FALSE,
     player |-> IdlePlayer, pending |-> EmptyBag, members |-> 1,
     hist |-> NoHistory, budget |-> b]

\* a faulty allocation: every guild is given the first object
SharedQueueId(objs) == 1

\* the object id of `new MusicQueue()`
NewQueueId(objs) == Len(objs) + 1

\* part_005:88-92: the Map and the heap after
\* `if (!guildQueues.has(guildId)) guildQueues.set(guildId, new MusicQueue())`
GetQueue(g, b) ==
    IF guildQueues[g] # 0 THEN [map |-> guildQueues, heap |-> objects]
    ELSE [map |-> [guildQueues EXCEPT ![g] = NewQueueId(objects)],
          heap |-> IF NewQueueId(objects) > Len(objects)
                   THEN Append(objects, NewMusicQueue(b)) ELSE objects]

\* `guildQueues.get(guildId)` (92): the object the handler of an interaction
\* of guild g runs on
Queued(g, b) ==
    LET Of(m) == m.heap[m.map[g]] IN Of(GetQueue(g, b))

\* the handler run of an interaction of guild g: w is the object of the
\* guild after its handler ran
Interaction(g, b, w) ==
    LET Got(m) ==
            /\ guildQueues' = m.map
            /\ objects' = [m.heap EXCEPT ![m.map[g]] = w]
            /\ UNCHANGED <<database, ytdlp, intervals>>
    IN Got(GetQueue(g, b))

\* the object of a guild that has one, at the start of a handler run
QueueOf(g) ==
    [objects[guildQueues[g]] EXCEPT !.hist.sel = NoSelection, !.hist.disc = NoDiscovery,
                                    !.hist.conn = NoConnect, !.hist.mal = NoMalformed,
                                    !.hist.backoff = NoBackoff,
                                    !.hist.empty = NoEmpty]

\* an event or a continuation of the object of guild g
OnQueue(g, w) ==
    /\ objects' = [objects EXCEPT ![guildQueues[g]] = w]
    /\ UNCHANGED <<guildQueues, database, ytdlp, intervals>>

Session == <<queue, currentSong, isPlaying, radioMode, discoveryMode, recentlyPlayed,
             recentArtists, currentVolume, fadeInterval, retryCount, failedUrls,
             connection, textChannel, voiceChannel, player, pending, members, hist,
             budget>>

\* /play <url> in a guild (part_004:200-384)
GuildPlay ==
    \E g \in Guilds, b \in GuildProfiles, u \in Urls :
       LET h(w) == IF w.budget.adds > 0
                   THEN handlePlayCommand(Spend(w, "adds"), u, FALSE, TRUE)
                   ELSE w
       IN Interaction(g, b, h(Queued(g, b))) /\ UNCHANGED Session

\* /skip in a guild (part_004:539-546)
GuildSkip ==
    \E g \in Guilds, b \in GuildProfiles :
       LET h(w) == IF w.isPlaying THEN skip(w) ELSE w
       IN Interaction(g, b, h(Queued(g, b))) /\ UNCHANGED Session

\* /clear in a guild (part_004:595-597)
GuildClear ==
    \E g \in Guilds, b \in GuildProfiles :
       Interaction(g, b, clear(Queued(g, b))) /\ UNCHANGED Session

GuildStreamReady ==
    \E g \in Guilds :
       /\ guildQueues[g] # 0
       /\ \E t \in BagToSet(QueueOf(g).pending) :
             /\ t.k = "stream"
             /\ OnQueue(g, fadeIn(clearFadeInterval(playerPlay(Resume(QueueOf(g), t),
                                                                t.url))))
       /\ UNCHANGED Session

GuildFadeRun ==
    \E g \in Guilds :
       /\ guildQueues[g] # 0
       /\ QueueOf(g).fadeInterval.kind # "none"
       /\ OnQueue(g, fadeRun(QueueOf(g)))
       /\ UNCHANGED Session

GuildPlayerIdle ==
    \E g \in Guilds :
       /\ guildQueues[g] # 0
       /\ QueueOf(g).player.status = "playing"
             \/ (QueueOf(g).player.status = "paused" /\ QueueOf(g).player.ending)
       /\ OnQueue(g, onIdle([QueueOf(g) EXCEPT !.player = IdlePlayer], NoChoice))
       /\ UNCHANGED Session

InitGuilds == Constructed /\ budget \in GuildProfiles

NextGuilds ==
    \/ GuildPlay \/ GuildSkip \/ GuildClear
    \/ GuildStreamReady \/ GuildFadeRun \/ GuildPlayerIdle

SpecGuilds == InitGuilds /\ [][NextGuilds]_vars

----------------------------------------------------------------------------
(* The statistics of database.js: trackUserSong records a request in the     *)
(* table user_songs, one row per (user_id, song_url), and                    *)
(* getMultipleUsersSongs aggregates the rows of a list of users, through a   *)
(* cache of query results.  The clock is Date.now() in ms; CURRENT_TIMESTAMP *)
(* of SQLite is the same clock.                                              *)

CACHE_TTL_MS == 300000
TickMs == 150000       \* the clock advances in steps of this many ms
MaxTicks == 2          \* steps of the clock
MaxRequests == 4       \* trackUserSong calls
MaxQueries == 2        \* getMultipleUsersSongs calls

UserIds == {1, 2}
UserLists == {<<>>, <<1>>, <<1, 2>>, <<2, 1>>, <<1, 1>>}
Limits == {1, 100}

Row(u, s, n, t) ==
    [user_id |-> u, song_url |-> s, request_count |-> n, last_requested |-> t]

\* saveDatabaseImmediate (491-501); ok: writeFileSync did not throw
saveDatabaseImmediate(d, ok) ==
    IF ok
    THEN [d EXCEPT !.disk = [user_songs |-> d.user_songs,
                             song_ratings |-> d.song_ratings],
                   !.isDirty = FALSE, !.lastSave = "ok"]
    ELSE [d EXCEPT !.lastSave = "error"]

\* saveDatabase (504-516): the debounce timer is cleared and set again
saveDatabase(d) ==
    [d EXCEPT !.isDirty = TRUE, !.saveTimeout = TRUE, !.lastSave = "none"]

\* a faulty trackUserSong: the cache is left as it is
trackUserSongCached(d, u, s) ==
    LET existing == {r \in d.user_songs : r.user_id = u /\ r.song_url = s}
        Updated(r) == IF r \in existing
                      THEN Row(u, s, r.request_count + 1, d.now) ELSE r
    IN saveDatabase([d EXCEPT !.user_songs =
                                  IF existing # {} THEN {Updated(r) : r \in @}
                                  ELSE @ \cup {Row(u, s, 1, d.now)}])

\* trackUserSong (567-596)
trackUserSong(d, u, s) ==
    LET existing == {r \in d.user_songs : r.user_id = u /\ r.song_url = s}
        Updated(r) == IF r \in existing
                      THEN Row(u, s, r.request_count + 1, d.now) ELSE r
    IN saveDatabase([d EXCEPT !.user_songs =
                                  IF existing # {} THEN {Updated(r) : r \in @}
                                  ELSE @ \cup {Row(u, s, 1, d.now)},
                              !.queryCache = {}])

\* [...userIds].sort()
RECURSIVE SortIds(_)
SortIds(ids) ==
    IF Len(ids) <= 1 THEN ids
    ELSE LET least == CHOOSE i \in DOMAIN ids : \A j \in DOMAIN ids : ids[i] <= ids[j]
             rest == [k \in 1..(Len(ids) - 1) |-> IF k < least THEN ids[k] ELSE ids[k + 1]]
         IN <<ids[least]>> \o SortIds(rest)

\* SUM(request_count) and MAX(last_requested) of a group of rows
RECURSIVE SumCounts(_)
SumCounts(rows) ==
    IF rows = {} THEN 0
    ELSE LET r == CHOOSE x \in rows : TRUE
         IN r.request_count + SumCounts(rows \ {r})

MaxOf(ts) == CHOOSE t \in ts : \A x \in ts : x <= t

\* SELECT ... FROM user_songs WHERE user_id IN (...) GROUP BY song_url (632-641)
Grouped(table, userIds) ==
    LET selected == {r \in table : r.user_id \in Range(userIds)}
        Group(s) == {r \in selected : r.song_url = s}
    IN {[song_url |-> s,
         total_requests |-> SumCounts(Group(s)),
         user_count |-> Cardinality({r.user_id : r \in Group(s)}),
         last_requested |-> MaxOf({r.last_requested : r \in Group(s)})] :
            s \in {r.song_url : r \in selected}}

\* ORDER BY user_count DESC, total_requests DESC, last_requested DESC (642)
Before(x, y) ==
    \/ x.user_count > y.user_count
    \/ x.user_count = y.user_count /\ x.total_requests > y.total_requests
    \/ x.user_count = y.user_count /\ x.total_requests = y.total_requests
          /\ x.last_requested >= y.last_requested

\* the orders in which the query may yield the groups: rows that are equal in
\* the three keys come in any order
Orderings(groups) ==
    {s \in [1..Cardinality(groups) -> groups] :
        /\ \A i, j \in DOMAIN s : i # j => s[i] # s[j]
        /\ \A i, j \in DOMAIN s : i < j => Before(s[i], s[j])}

\* a faulty query: LIMIT is not applied
QueryAll(table, userIds, limit) == Orderings(Grouped(table, userIds))

\* the query of 631-645 with its LIMIT: the lists it may return
Query(table, userIds, limit) ==
    {SubSeq(s, 1, Min(limit, Len(s))) : s \in Orderings(Grouped(table, userIds))}

CacheKey(userIds, limit) == [ids |-> SortIds(userIds), limit |-> limit]

\* getMultipleUsersSongs (612-658): the database after the call, for each list
\* that the call may return
getMultipleUsersSongs(d, userIds, limit) ==
    LET Returned(d1, rows) ==
            [d1 EXCEPT !.out = [on |-> TRUE, userIds |-> userIds, limit |-> limit,
                                rows |-> rows]]
        cached == {c \in d.queryCache : c.key = CacheKey(userIds, limit)}
        Fresh(c) == d.now - c.timestamp < CACHE_TTL_MS
        Stored(rows) ==
            [d EXCEPT !.queryCache =
                 {c \in @ : c.key # CacheKey(userIds, limit)}
                 \cup {[key |-> CacheKey(userIds, limit), data |-> rows,
                        timestamp |-> d.now]}]
    IN IF Len(userIds) = 0 THEN {Returned(d, <<>>)}
       ELSE IF \E c \in cached : Fresh(c)
       THEN {Returned(d, c.data) : c \in cached}
       ELSE {Returned(Stored(rows), rows) : rows \in Query(d.user_songs, userIds, limit)}

\* what is left of the session and of the guilds while the database works
NoSession == UNCHANGED <<queue, currentSong, isPlaying, radioMode, discoveryMode,
                         recentlyPlayed, recentArtists, currentVolume, fadeInterval,
                         retryCount, failedUrls, connection, textChannel, voiceChannel,
                         player, pending, members, guildQueues, objects, ytdlp,
                         intervals, hist>>

\* a user requests a track: addSong calls trackUserSong (part_003:465)
TrackRequest ==
    /\ budget.requests > 0
    /\ \E u \in UserIds, s \in Urls :
          database' = [trackUserSong(database, u, s) EXCEPT
                          !.log = @ (+) SetToBag({[user |-> u, url |-> s, at |-> database.now]}),
                          !.out = NoQuery]
    /\ budget' = [budget EXCEPT !.requests = @ - 1]
    /\ NoSession

\* playRadioSong reads the library of the listeners (part_003:919)
RadioQuery ==
    /\ budget.queries > 0
    /\ \E userIds \in UserLists, limit \in Limits :
          database' \in getMultipleUsersSongs(database, userIds, limit)
    /\ budget' = [budget EXCEPT !.queries = @ - 1]
    /\ NoSession

\* time passes
ClockTick ==
    /\ budget.ticks > 0
    /\ database' = [database EXCEPT !.now = @ + TickMs, !.out = NoQuery]
    /\ budget' = [budget EXCEPT !.ticks = @ - 1]
    /\ NoSession

StatsProfiles ==
    { [requests |-> MaxRequests, queries |-> MaxQueries, ticks |-> MaxTicks] }

InitStats == Constructed /\ budget \in StatsProfiles

NextStats == TrackRequest \/ RadioQuery \/ ClockTick

SpecStats == InitStats /\ [][NextStats]_vars

----------------------------------------------------------------------------
(* The ramps with their timers (part_003:140-235).  setInterval hands out a  *)
(* timer whose callback runs until clearInterval is called on it;            *)
(* this.fadeInterval refers to the timer set last.  fadeIn, fadeOutAndSkip   *)
(* and clearFadeInterval are called in any order, as the handlers of the     *)
(* session call them, and the callback of any timer that is set may run.     *)
(* The state is [t |-> intervals, gain |-> currentVolume, player |-> player]. *)

MaxRamps == 3      \* calls of fadeIn and fadeOutAndSkip

\* clearFadeInterval (140-145): clearInterval(this.fadeInterval)
rampClear(r) ==
    IF r.t.handle # 0
    THEN [r EXCEPT !.t.live = {c \in @ : c.id # r.t.handle},
                   !.t.handle = 0,
                   !.t.cancelled = IF \E c \in r.t.live : c.id = r.t.handle
                                   THEN CHOOSE c \in r.t.live : c.id = r.t.handle
                                   ELSE @]
    ELSE r

\* this.fadeInterval = setInterval(...) with currentStep = 0 (181-183, 210-220)
rampSet(r, kind) ==
    [r EXCEPT !.t.live = @ \cup {[id |-> r.t.created + 1, kind |-> kind, step |-> 0]},
              !.t.handle = r.t.created + 1,
              !.t.created = @ + 1]

\* a faulty fadeIn: the ramp in flight is not cleared
rampFadeInOver(r) == [rampSet(r, "in") EXCEPT !.gain = 0]

\* fadeIn (204-235) up to the first run of the callback
rampFadeIn(r) == [rampSet(rampClear(r), "in") EXCEPT !.gain = 0]

\* fadeOutAndSkip (174-202) up to the first run of the callback
rampFadeOut(r) == rampSet(rampClear(r), "out")

\* the callback of the timer c runs (183-200, 220-234)
rampTick(r, c) ==
    LET currentStep == c.step + 1
        newVolume == IF c.kind = "out" THEN Max(0, fadeSteps - currentStep)
                     ELSE Min(fadeSteps, currentStep)
        r1 == [r EXCEPT !.t.live = (@ \ {c}) \cup {[c EXCEPT !.step = currentStep]},
                        !.gain = newVolume]
        Stopped(r2) ==
            IF c.kind = "out" /\ r2.player.status # "idle"
            THEN [r2 EXCEPT !.player.ending = TRUE] ELSE r2
    IN IF currentStep >= fadeSteps THEN Stopped(rampClear(r1)) ELSE r1

Ramps == [t |-> intervals, gain |-> currentVolume, player |-> player]

RampBecomes(r) ==
    /\ intervals' = r.t
    /\ currentVolume' = r.gain
    /\ player' = r.player
    /\ UNCHANGED <<queue, currentSong, isPlaying, radioMode, discoveryMode,
                   recentlyPlayed, recentArtists, fadeInterval, retryCount, failedUrls,
                   connection, textChannel, voiceChannel, pending, members,
                   guildQueues, objects, database, ytdlp, hist, budget>>

\* playSong after the stream: player.play(resource), then fadeIn (843, 662)
CallFadeIn ==
    /\ intervals.created < MaxRamps
    /\ \E u \in Urls :
          RampBecomes(rampFadeIn([Ramps EXCEPT
              !.player = [status |-> "playing", res |-> u, ending |-> FALSE]]))

\* playNext on a playing session (874-876)
CallFadeOut ==
    /\ intervals.created < MaxRamps
    /\ RampBecomes(rampFadeOut(Ramps))

\* the Idle and the error handler: clearFadeInterval, currentVolume = 1.0
\* (88-90, 97-99)
CallClear ==
    /\ player.status # "idle"
    /\ RampBecomes([rampClear([Ramps EXCEPT !.player = IdlePlayer])
                        EXCEPT !.gain = fadeSteps])

\* a timer that is set fires
IntervalTick ==
    \E c \in intervals.live : RampBecomes(rampTick(Ramps, c))

InitRamps == Constructed /\ budget \in FadeProfiles

NextRamps == CallFadeIn \/ CallFadeOut \/ CallClear \/ IntervalTick

SpecRamps == InitRamps /\ [][NextRamps]_vars

----------------------------------------------------------------------------
(* The weighted selection alone, on the rows getMultipleUsersSongs can       *)
(* return: one row per song_url, user_count >= 1 users with at least one     *)
(* request each (database.js 612-658).  The budget holds the rows and the    *)
(* value pick / RandDen of Math.random().                                    *)

MaxPool == 2             \* rows in a pool
MaxUserCount == 3        \* user_count of a row
MaxTotalRequests == 10   \* total_requests of a row

SampleUrls == <<"a", "b", "c", "d">>
Counts ==
    {uctr \in (1..MaxUserCount) \X (1..MaxTotalRequests) : uctr[2] >= uctr[1]}
PoolsOf(n) ==
    {[i \in 1..n |-> Cand(SampleUrls[i], "x", f[i][1], f[i][2])] : f \in [1..n -> Counts]}
SamplePools == UNION {PoolsOf(n) : n \in 1..MaxPool}

SelectProfiles ==
    {[songs |-> p, pick |-> k, draws |-> 1] : p \in SamplePools, k \in 0..(RandDen - 1)}

\* one weighted selection on the rows: the weights, the song the binary
\* search takes and the song the expanded array gives for the same draw
WeightedSelect ==
    /\ budget.draws > 0
    /\ hist' = [hist EXCEPT !.pick =
                    [on |-> TRUE, pool |-> budget.songs, pick |-> budget.pick,
                     weights |-> [i \in 1..Len(budget.songs) |-> Weight(budget.songs[i])],
                     randomSong |-> WeightedIndex(budget.songs, budget.pick),
                     expanded |-> ExpandedIndex(budget.songs, budget.pick)]]
    /\ budget' = [budget EXCEPT !.draws = 0]
    /\ UNCHANGED <<queue, currentSong, isPlaying, radioMode, discoveryMode,
                   recentlyPlayed, recentArtists, currentVolume, fadeInterval,
                   retryCount, failedUrls, connection, textChannel, voiceChannel,
                   player, pending, members, guildQueues, objects, database,
                   ytdlp, intervals>>

InitSelect == Constructed /\ budget \in SelectProfiles

NextSelect == WeightedSelect

SpecSelect == InitSelect /\ [][NextSelect]_vars

----------------------------------------------------------------------------
(* Properties *)

\* the order in which the tracks leave the queue: those drained, then those
\* still queued
DrainOrder == hist.drained \o queue

\* C1: tracks added with priority = false leave the queue in the order of their
\* addSong calls, and a track added with priority = true leaves it before every
\* track that was queued and not yet drained when it was added.
C1_QueueOrdering ==
    \A i, j \in DOMAIN DrainOrder :
       /\ i < j /\ ~DrainOrder[i].prio /\ ~DrainOrder[j].prio
             => DrainOrder[i].seq < DrainOrder[j].seq
       /\ DrainOrder[j].prio /\ DrainOrder[i].seq < DrainOrder[j].seq
             /\ i > DrainOrder[j].at
             => j < i

\* three tracks drained: the third call, with priority, overtook the second
C1_Witness ==
    /\ Len(hist.drained) = 3
    /\ hist.drained[2].prio /\ hist.drained[2].seq = 3
    /\ ~hist.drained[1].prio /\ hist.drained[1].seq = 1
    /\ ~hist.drained[3].prio /\ hist.drained[3].seq = 2

\* C2: a radio or discovery track is chosen only when the queue is empty at
\* the moment of the choice.
C2_QueueDrainedFirst ==
    hist.choice.by \in {"radio", "discovery"} => ~hist.choice.queued

\* C3: once playNext has found the queue empty with radio mode off, and until
\* the next addSong, addPlaylist or mode toggle, the session is idle, playNext
\* has signalled it once ("Queue is empty", sent if the session has a text
\* channel) and nothing is handed to the resolver or the player.
C3_IdleSignal ==
    hist.idle.on =>
       /\ ~isPlaying
       /\ currentSong = NoSong
       /\ hist.idle.notices + hist.idle.silent = 1
       /\ ~hist.idle.attempts

C5_RetryCeiling == hist.abandoned \subseteq failedUrls

\* C6: no step requests a stream for a url that is in failedUrls.
C6_BlacklistHonoured ==
    [][\A t \in BagToSet(pending') :
          t.k = "stream" /\ CopiesIn(t, pending') > CopiesIn(t, pending)
             => t.url \notin failedUrls]_vars

\* C7: the retry count stays between 0 and maxRetries = 3.
C7_RetryCountBounded == retryCount \in 0..3

\* the third retry of a track is scheduled
C7_Witness == retryCount = 3 /\ BagIn(Timer("retryTimer"), pending)

\* C8: a step that is not a session reset removes no url from failedUrls.
C8_FailedUrlsGrow ==
    [][hist'.resets = hist.resets => failedUrls \subseteq failedUrls']_vars

\* a url is blacklisted and the session plays on
C8_Witness == failedUrls # {} /\ player.status = "playing" /\ hist.resets = 0

\* C9: after a radio selection from a pool of P tracks the history holds at
\* most min(floor(0.6 * P), 50) urls.
C9_HistoryBound ==
    hist.pool > 0 => Len(recentlyPlayed) <= Min((hist.pool * 6) \div 10, 50)

\* the history is at its ceiling of 50 and its oldest url was evicted
C9_Witness ==
    /\ hist.pool = BigPool
    /\ Len(recentlyPlayed) = 50
    /\ Head(recentlyPlayed) # "1"

\* C10: after a radio selection from a pool of P tracks the artist history
\* holds at most min(floor(0.15 * P), 10) artists.
C10_ArtistBound ==
    hist.pool > 0 => Len(recentArtists) <= Min((hist.pool * 15) \div 100, 10)

\* C11: a radio selection from a pool of two or more tracks that did not trim
\* or clear the history selects a url that was not in recentlyPlayed before it.
C11_NoImmediateRepeat ==
    hist.pool >= 2 /\ ~hist.sel.cleared => hist.sel.url \notin Range(hist.sel.before)

\* a track is selected past a history of three urls that was left as it was
C11_Witness ==
    /\ hist.pool >= 2
    /\ ~hist.sel.cleared
    /\ Len(hist.sel.before) >= 3
    /\ currentSong.url = hist.sel.url
    /\ currentSong.url \notin Range(hist.sel.before)

\* C12: the gains set by the ticks 1..20 of one fade-out never increase and the
\* twentieth is 0; a fade-in starts at gain 0, the gains set by its ticks never
\* decrease and the twentieth is 1 (fadeSteps / fadeSteps); every gain is
\* between 0 and 1.
C12_FadeMonotone ==
    LET out == hist.ramp.out
        in == hist.ramp.in
    IN /\ currentVolume \in 0..fadeSteps
       /\ \A i \in DOMAIN out : out[i] \in 0..fadeSteps
       /\ \A i \in DOMAIN in : in[i] \in 0..fadeSteps
       /\ \A i \in 1..(Len(out) - 1) : out[i + 1] <= out[i]
       /\ Len(out) = fadeSteps => out[fadeSteps] = 0
       /\ fadeInterval.kind = "in" /\ fadeInterval.step = 0 => currentVolume = 0
       /\ \A i \in 1..(Len(in) - 1) : in[i + 1] >= in[i]
       /\ Len(in) = fadeSteps => in[fadeSteps] = fadeSteps

\* a fade-in and a fade-out have run through their twenty ticks
C12_Witness ==
    /\ Len(hist.ramp.out) = fadeSteps
    /\ Len(hist.ramp.in) = fadeSteps
    /\ hist.ramp.out[1] = fadeSteps - 1
    /\ hist.ramp.in[1] = 1

\* the cases in which a playDiscoverySong call has no new track: no member in
\* the voice channel, an empty library, a search that threw, or a search whose
\* results (none, possibly) are all urls of the library
CannotDiscover(d) ==
    \/ ~d.users
    \/ d.known = {}
    \/ d.search = "threw"
    \/ d.search = "done" /\ Range(d.results) \subseteq d.known

C14_DisconnectResets ==
    hist.clean =>
       /\ queue = <<>>
       /\ recentlyPlayed = <<>>
       /\ recentArtists = <<>>
       /\ failedUrls = {}
       /\ retryCount = 0
       /\ currentSong = NoSong
       /\ ~radioMode /\ ~discoveryMode
       /\ ~isPlaying
       /\ player.status # "idle" => player.ending

\* C14, the fields of the session only
C14_FieldsReset ==
    hist.clean => currentSong = NoSong /\ ~isPlaying

\* C15: a skip() issued while a track is current stops the player, which then
\* emits Idle, whose handler runs playNext: from the skip to that Idle the
\* player holds a resource and is ending it.
C15_SkipAdvances ==
    hist.skipped => player.status # "idle" /\ player.ending

\* the fields that pause() and resume() are to leave alone
SessionFields(w) ==
    <<w.queue, w.currentSong, w.radioMode, w.discoveryMode, w.recentlyPlayed,
      w.recentArtists, w.retryCount, w.failedUrls>>

\* C16: in every state of the session, pause() and resume() leave the queue,
\* currentSong, the two modes, the two histories, retryCount and failedUrls as
\* they are; pause() on a paused player and resume() on a playing player
\* change nothing at all.
C16_PauseResumeFrame ==
    /\ SessionFields(pause(W)) = SessionFields(W)
    /\ SessionFields(resume(W)) = SessionFields(W)
    /\ player.status = "paused" => pause(W) = W
    /\ player.status = "playing" => resume(W) = W

\* a track is paused with another one queued, and a pause may follow
C16_Witness ==
    /\ player.status = "paused"
    /\ currentSong # NoSong
    /\ queue # <<>>
    /\ isPlaying /\ budget.cmds > 0

\* C17: in every state of the session, clear() empties the queue and leaves
\* every other field, the player and what is in flight as they are.
C17_ClearFrame ==
    /\ clear(W).queue = <<>>
    /\ [clear(W) EXCEPT !.queue = queue] = W

\* a queued track was cleared (it is neither queued nor drained) and the
\* current track plays on
C17_Witness ==
    /\ queue = <<>>
    /\ Len(hist.drained) < hist.nextSeq - 1
    /\ hist.resets = 0
    /\ isPlaying /\ currentSong # NoSong
    /\ player.status = "playing" /\ ~player.ending

\* what is in progress of playNext and of the playSong, playRadioSong or
\* playDiscoverySong it starts: its fade-out, the 100 ms delay after it, the
\* acquisition of a stream, a discovery search
RECURSIVE Copies(_)
Copies(ts) ==
    IF ts = {} THEN 0
    ELSE LET t == CHOOSE x \in ts : TRUE
         IN CopiesIn(t, pending) + Copies(ts \ {t})

InProgress ==
    (IF fadeInterval.kind = "out" THEN 1 ELSE 0)
    + Copies({t \in BagToSet(pending) : t.k \in {"delay", "stream", "search"}})

\* C18: in a session that was not disconnected, at most one advance is in
\* progress at any time.
C18_AdvancesSerialized == hist.resets = 0 => InProgress <= 1

\* C19: the resource that the player holds and is not ending is the stream
\* of currentSong: a stream acquired for a superseded attempt is not attached.
C19_StaleDiscarded ==
    player.status # "idle" /\ ~player.ending => player.res = currentSong.url

\* C20: a handler run in which connect() returned false leaves the session
\* without a connection and has not called playNext after the failure.
C20_ConnectFailure ==
    hist.conn.failed => ~connection /\ ~hist.conn.advanced

\* no stream is requested for, and the player holds no resource of, a track
\* without a usable url
NeverResolved ==
    /\ \A t \in BagToSet(pending) : t.k = "stream" => t.url \notin MalformedUrls
    /\ player.status # "idle" => player.res \notin MalformedUrls

LeaveTimerFired ==
    CopiesIn(Timer("leaveTimer"), pending') < CopiesIn(Timer("leaveTimer"), pending)

\* C22: a voice-state event that leaves the channel of a connected session
\* without a listener starts a 60 s timer, and the callback of the timer
\* disconnects and resets the session if and only if the channel has no
\* listener when it runs.
C22_AutoDisconnect ==
    [][/\ members' # members /\ members' = 0 /\ connection
          => CopiesIn(Timer("leaveTimer"), pending')
                > CopiesIn(Timer("leaveTimer"), pending)
       /\ LeaveTimerFired => (hist'.resets > hist.resets <=> members = 0)]_vars

\* C22, its effect on a track: the callback of the timer takes no track out of
\* the queue while a listener is in the channel
C22_QueueKept ==
    [][LeaveTimerFired /\ members > 0 => queue' = queue]_vars

\* C23: a guild that has a MusicQueue keeps it, no two guilds have the same
\* MusicQueue, a MusicQueue that exists is the object of a guild, and a step
\* changes the fields of the MusicQueue of one guild at most.
C23_GuildsIndependent ==
    [][/\ \A g \in Guilds : guildQueues[g] # 0 => guildQueues'[g] = guildQueues[g]
       /\ \A g, h \in Guilds :
             g # h /\ guildQueues'[g] # 0 => guildQueues'[g] # guildQueues'[h]
       /\ \A i \in DOMAIN objects' : \E g \in Guilds : guildQueues'[g] = i
       /\ \A i, j \in DOMAIN objects :
             i # j /\ objects'[i] # objects[i] => objects'[j] = objects[j]]_vars

\* the two guilds play different tracks, and the second has a track queued
\* that the first has not
C23_Witness ==
    /\ guildQueues["g1"] # 0 /\ guildQueues["g2"] # 0
    /\ guildQueues["g1"] # guildQueues["g2"]
    /\ objects[guildQueues["g1"]].player.res = "a"
    /\ objects[guildQueues["g1"]].queue = <<>>
    /\ objects[guildQueues["g2"]].player.res = "b"
    /\ objects[guildQueues["g2"]].queue # <<>>

\* the requests of the log by the users of a list, for one url
Requests(userIds, s) ==
    {e \in BagToSet(database.log) : e.user \in Range(userIds) /\ e.url = s}

RECURSIVE Times(_)
Times(es) ==
    IF es = {} THEN 0
    ELSE LET e == CHOOSE x \in es : TRUE
         IN CopiesIn(e, database.log) + Times(es \ {e})

\* C24: getMultipleUsersSongs returns, for the requests recorded so far, each
\* url requested by a listed user once, with user_count the number of listed
\* users who requested it, total_requests the number of their requests and
\* last_requested the time of the latest; the rows are in descending order of
\* user_count, then total_requests, then last_requested; the list is cut to
\* the limit, the rows left out not being before the rows returned; and it is
\* empty for an empty user list.
C24_StatisticsQuery ==
    LET rows == database.out.rows
        userIds == database.out.userIds
        requested == {s \in Urls : Requests(userIds, s) # {}}
        Expected(s) ==
            [song_url |-> s,
             total_requests |-> Times(Requests(userIds, s)),
             user_count |-> Cardinality({e.user : e \in Requests(userIds, s)}),
             last_requested |-> MaxOf({e.at : e \in Requests(userIds, s)})]
    IN database.out.on =>
          /\ \A i, j \in DOMAIN rows : i # j => rows[i].song_url # rows[j].song_url
          /\ \A i \in DOMAIN rows :
                rows[i].song_url \in requested /\ rows[i] = Expected(rows[i].song_url)
          /\ \A i, j \in DOMAIN rows : i < j => Before(rows[i], rows[j])
          /\ Len(rows) = Min(database.out.limit, Cardinality(requested))
          /\ \A s \in requested :
                (\A i \in DOMAIN rows : rows[i].song_url # s)
                   => \A i \in DOMAIN rows : Before(rows[i], Expected(s))
          /\ userIds = <<>> => rows = <<>>

\* a query for both users, answered from the cache: both requested "a", one
\* of them twice, and one requested "b"
C24_Witness ==
    /\ database.out.on
    /\ database.out.userIds = <<2, 1>>
    /\ database.out.limit = 100
    /\ Len(database.out.rows) = 2
    /\ database.out.rows[1].user_count = 2
    /\ database.out.rows[1].total_requests = 3
    /\ database.out.rows[2].user_count = 1
    /\ \E c \in database.queryCache : c.timestamp < database.now

\* C25: at most one timer of a ramp is set at any time, and it is the one
\* this.fadeInterval refers to: the timer of a ramp that was cancelled is not
\* set any more, so none of its remaining steps runs.
C25_OneRamp ==
    /\ Cardinality(intervals.live) <= 1
    /\ \A c \in intervals.live : c.id = intervals.handle
    /\ intervals.cancelled \notin intervals.live

\* a fade-out was cancelled at its step 7 by a fade-in, which is at its step 3
C25_Witness ==
    /\ intervals.cancelled.kind = "out"
    /\ intervals.cancelled.step = 7
    /\ \E c \in intervals.live :
          c.kind = "in" /\ c.step = 3 /\ c.id > intervals.cancelled.id
    /\ currentVolume = 3

\* C26: a playNext that awaits fadeOutAndSkip is resumed: the promise of every
\* fadeOutAndSkip call is eventually resolved.
C26_FadeWaitEnds == Has(Timer("fadeWait")) ~> ~Has(Timer("fadeWait"))

\* C26, the state it excludes: a playNext awaits a fade-out whose interval is
\* not set any more, so nothing is left to call resolve()
C26_WaitHasRamp == Has(Timer("fadeWait")) => fadeInterval.kind = "out"

\* C27: when a track other than the current one becomes the current track,
\* retryCount is 0.
C27_RetryPerTrack ==
    [][currentSong' # currentSong /\ currentSong' # NoSong => retryCount' = 0]_vars

\* C28: the timer of retry n, n being 1, 2 or 3, is set to 1000, 2000 and
\* 4000 ms, which is min(1000 * 2^(n-1), 5000); the delays never decrease
\* with n and none exceeds 5000 ms.
C28_Backoff ==
    /\ hist.backoff.on =>
          /\ hist.backoff.n \in 1..3
          /\ hist.backoff.ms = <<1000, 2000, 4000>>[hist.backoff.n]
    /\ \A n \in 1..maxRetries :
          /\ backoffMs(n) <= 5000
          /\ n > 1 => backoffMs(n - 1) <= backoffMs(n)

\* the third retry of a track is scheduled, 4 s ahead
C28_Witness ==
    /\ hist.backoff.on
    /\ hist.backoff.n = 3
    /\ hist.backoff.ms = 4000
    /\ retryCount = 3
    /\ Has(Timer("retryTimer"))

\* C29: for every non-empty pool and every draw, the binary search over the
\* cumulative weights takes the song that the weight-expanded list holds at
\* index floor(r * totalWeight).
C29_SelectionEquivalence ==
    hist.pick.on => hist.pick.randomSong = hist.pick.expanded

\* the two agree unless the draw falls on the boundary between two songs:
\* r * totalWeight is the cumulative weight of a song that is not the last
C29_AgreeOffBoundary ==
    hist.pick.on =>
        LET cw == CumulativeWeights(hist.pick.pool)
            OnBoundary ==
                \E i \in 1..(Len(cw) - 1) :
                    cw[i] * RandDen = hist.pick.pick * cw[Len(cw)]
        IN IF OnBoundary
           THEN hist.pick.expanded = hist.pick.randomSong + 1
           ELSE hist.pick.expanded = hist.pick.randomSong

\* k is ceil(log2(n)), n >= 1: the least k with 2^k >= n
IsCeilLog2(k, n) == Pow2(k) >= n /\ (k = 0 \/ Pow2(k - 1) < n)

\* clamp(ceil(log2(uc + 1)) + ceil(log2(tr + 1)), 1, 5)
IsClampedWeight(wt, uc, tr) ==
    \E a \in 0..uc, b \in 0..tr :
        /\ IsCeilLog2(a, uc + 1)
        /\ IsCeilLog2(b, tr + 1)
        /\ wt = (IF a + b < 1 THEN 1 ELSE IF a + b > 5 THEN 5 ELSE a + b)

\* C30: the weight of a candidate is ceil(log2(userCount + 1)) +
\* ceil(log2(totalRequests + 1)) clamped to 1..5; it lies in 1..5 and no
\* candidate with counts at most as large, down to 0 and 0, weighs more; so
\* userCount 3, totalRequests 10 weighs at least what userCount 1,
\* totalRequests 1 does.
C30_SelectionWeight ==
    /\ hist.pick.on =>
          \A i \in 1..Len(hist.pick.pool) :
              LET c == hist.pick.pool[i]
                  wt == hist.pick.weights[i]
              IN /\ wt \in 1..5
                 /\ IsClampedWeight(wt, c.user_count, c.total_requests)
                 /\ \A uc \in 0..c.user_count, tr \in 0..c.total_requests :
                        /\ IsClampedWeight(Weight(Cand("", "", uc, tr)), uc, tr)
                        /\ Weight(Cand("", "", uc, tr)) \in 1..wt
    /\ Weight(Cand("", "", 3, 10)) >= Weight(Cand("", "", 1, 1))

\* the weights of a row of 3 users and 10 requests, at the cap, and of a row
\* of one user and one request
C30_Witness ==
    /\ hist.pick.on
    /\ Len(hist.pick.pool) = 2
    /\ hist.pick.pool[1].user_count = 3 /\ hist.pick.pool[1].total_requests = 10
    /\ hist.pick.pool[2].user_count = 1 /\ hist.pick.pool[2].total_requests = 1
    /\ hist.pick.weights = <<5, 2>>

\* the songs of the pool of the latest selection that are not in the history
\* it found, and those of them that the artist history it found lets pass
SelAvailable ==
    {i \in 1..hist.pool : ToString(i) \notin Range(hist.sel.before)}
SelDiverse ==
    {i \in SelAvailable :
        RadioArtist(i) \notin Range(hist.sel.artists) \/ RadioArtist(i) = "Unknown"}
SelGate ==
    /\ Cardinality(SelAvailable) * 5 >= hist.pool
    /\ Cardinality(SelAvailable) >= 10
    /\ Cardinality(SelDiverse) * 10 >= Cardinality(SelAvailable) * 3

\* C31: a radio selection takes its track from the songs that pass the artist
\* filter only if the songs not in the history are at least max(20% of the
\* pool, 10) and at least 30% of them pass the filter, and otherwise from all
\* the songs not in the history; when the filter is applied the artist of the
\* track is "Unknown" or not in recentArtists as it was before the call.
C31_ArtistGate ==
    hist.sel.url # "" =>
        /\ SelGate =>
              /\ hist.sel.from = Cardinality(SelDiverse)
              /\ hist.sel.artist = "Unknown"
                    \/ hist.sel.artist \notin Range(hist.sel.artists)
        /\ ~SelGate => hist.sel.from = Cardinality(SelAvailable)

\* the filter was applied and took songs away; the track selected is the
\* current one and its stream is awaited
C31_Witness ==
    /\ hist.sel.url # ""
    /\ SelGate
    /\ Cardinality(SelDiverse) < Cardinality(SelAvailable)
    /\ hist.sel.from = Cardinality(SelDiverse)
    /\ hist.sel.artists # <<>>
    /\ currentSong.url = hist.sel.url
    /\ Has(Task("stream", hist.sel.url, {}))

\* the filter would have left less than 30% and was skipped: a track of a
\* recent artist is selected
C31_Skipped ==
    /\ hist.sel.url # ""
    /\ Cardinality(SelAvailable) >= 10
    /\ Cardinality(SelDiverse) * 10 < Cardinality(SelAvailable) * 3
    /\ hist.sel.artist \in Range(hist.sel.artists)

\* the last k elements of s, all of s if it has no more
Recent(s, k) ==
    [i \in 1..(IF k < Len(s) THEN k ELSE Len(s)) |->
        s[i + (IF k < Len(s) THEN Len(s) - k ELSE 0)]]

\* the song history of the latest selection after its trim, and whether no
\* song of the pool is outside it
SelTrimmed ==
    Recent(hist.sel.before,
           IF Len(hist.sel.before) \div 5 > 3 THEN Len(hist.sel.before) \div 5 ELSE 3)
SelStillEmpty == \A i \in 1..hist.pool : ToString(i) \in Range(SelTrimmed)

\* C32: a radio selection whose filters leave no candidate cuts recentlyPlayed
\* to its last max(3, floor(0.2 * length)) urls and recentArtists to its last
\* 2 and takes the track from the songs outside the cut history, whatever
\* their artist; if there is none, both histories are emptied and the track
\* is taken from the whole pool.  The track is then pushed to the histories
\* as after any selection.  Every selection takes a track of the pool, and
\* takes this branch only if its filters left no candidate.
C32_HistoryReset ==
    hist.sel.url # "" =>
        LET cap == IF (hist.pool * 6) \div 10 < 50 THEN (hist.pool * 6) \div 10 ELSE 50
            capA == IF (hist.pool * 15) \div 100 < 10 THEN (hist.pool * 15) \div 100
                    ELSE 10
            rp == IF SelStillEmpty THEN <<>> ELSE SelTrimmed
            ra == IF SelStillEmpty THEN <<>> ELSE Recent(hist.sel.artists, 2)
            named == hist.sel.artist \notin {"", "Unknown"}
        IN /\ \E i \in 1..hist.pool : hist.sel.url = ToString(i)
           /\ currentSong.url = hist.sel.url
           /\ hist.sel.cleared <=> hist.sel.from = 0
           /\ hist.sel.cleared <=>
                 IF SelGate THEN SelDiverse = {} ELSE SelAvailable = {}
           /\ hist.sel.cleared =>
                 /\ hist.sel.cands =
                       IF SelStillEmpty THEN hist.pool
                       ELSE Cardinality({i \in 1..hist.pool :
                                            ToString(i) \notin Range(SelTrimmed)})
                 /\ SelStillEmpty \/ hist.sel.url \notin Range(SelTrimmed)
                 /\ recentlyPlayed = Recent(Append(rp, hist.sel.url), cap)
                 /\ recentArtists =
                       IF named THEN Recent(Append(ra, hist.sel.artist), capA) ELSE ra

\* a history of 14 urls that holds the whole pool was cut to its last 3, the
\* artist history of 3 to its last 2, and a track outside the 3 was selected
C32_Witness ==
    /\ hist.sel.url # ""
    /\ hist.sel.cleared
    /\ hist.pool = 14
    /\ Len(hist.sel.before) = 14
    /\ Len(hist.sel.artists) = 3
    /\ ~SelStillEmpty
    /\ hist.sel.cands = 11
    /\ Len(recentlyPlayed) = 4
    /\ currentSong.url = hist.sel.url

\* the pool of 3 tracks is inside the cut history: the histories are emptied
C32_Cleared ==
    /\ hist.sel.url # ""
    /\ hist.sel.cleared
    /\ SelStillEmpty
    /\ hist.pool = 3
    /\ hist.sel.cands = 3
    /\ recentlyPlayed = <<hist.sel.url>>
    /\ recentArtists = <<>>

\* C33: with the same pool of two or more tracks at every call and an empty
\* history at the start, no radio selection trims or clears the history, and
\* none selects the url of the radio track that was selected before it.
C33_NoResetNoRepeat ==
    [][hist'.sel.url # "" =>
          /\ ~hist'.sel.cleared
          /\ currentSong.by = "radio" => currentSong'.url # currentSong.url]_vars

\* the last of the selections from a pool of two tracks: the history held the
\* other track, which was the current one
C33_Witness ==
    /\ budget.selects = 0
    /\ hist.pool = 2
    /\ hist.sel.url = "2"
    /\ hist.sel.before = <<"1">>
    /\ ~hist.sel.cleared
    /\ recentlyPlayed = <<"2">>
    /\ currentSong.url = "2"

\* C34: a radio selection that finds no listener starts no track and leaves
\* radioMode as it found it; one that finds listeners and an empty library
\* starts no track and sets radioMode to false.  After either, a /play or
\* /playlist on the connected session enqueues its tracks, and its playNext
\* starts the track at the head of the queue.
C34_EmptyPoolSoft ==
    [][/\ hist'.empty.case # "none" =>
             /\ hist'.empty.case = "users" => radioMode' = hist'.empty.mode
             /\ hist'.empty.case = "songs" => ~radioMode'
             /\ \A t \in BagToSet(pending') :
                    t.k = "stream" /\ CopiesIn(t, pending') > CopiesIn(t, pending)
                       => currentSong'.by = "user"
             /\ currentSong'.by \in {"radio", "discovery"} => currentSong' = currentSong
       /\ /\ hist.empty.case # "none"
          /\ budget'.adds < budget.adds
          /\ connection'
          /\ ~isPlaying
          => /\ Len(hist'.drained) = Len(hist.drained) + 1
             /\ currentSong' = hist'.drained[Len(hist'.drained)]
             /\ currentSong'.by = "user"
             /\ isPlaying'
             /\ BagIn(Task("stream", currentSong'.url, {}), pending')]_vars

\* radio mode was switched off for want of songs; the session is connected,
\* plays nothing and a user may add a track
C34_Witness ==
    /\ hist.empty.case = "songs"
    /\ hist.empty.mode
    /\ ~radioMode
    /\ connection
    /\ ~isPlaying
    /\ pending = EmptyBag
    /\ budget.adds > 0

\* no listener: radio mode stays on and no track is started
C34_NoListener ==
    /\ hist.empty.case = "users"
    /\ radioMode
    /\ connection
    /\ ~isPlaying
    /\ pending = EmptyBag
    /\ budget.adds > 0

\* C35: in a session that was never disconnected, a handler run that selects
\* a radio track or starts a discovery track leaves radioMode true: once
\* radio mode is off, no timer and no fallback starts such a track.
C35_RadioOnlyInRadioMode ==
    [][hist'.resets = 0 /\ (hist'.sel.url # "" \/ hist'.disc.started) => radioMode']_vars

----------------------------------------------------------------------------
\* playWithLocalStream (part_003:801-869): the Promise around one yt-dlp
\* process.  The process and its stdout emit their events in an order the
\* runtime chooses, each at most once; createAudioResource and player.play
\* may throw.  ytdlp holds the closure of the latest Promise.

MaxSpawns == 2
ExitCodes == {"0", "1", "null"}

spawnYtdlp(u) ==
    [NoProcess EXCEPT !.url = u, !.settled = "pending", !.timeout = "armed"]

\* resolve() and reject(): only the first call settles the Promise
resolve(p) ==
    [p EXCEPT !.resolves = @ + 1,
              !.settled = IF @ = "pending" THEN "resolved" ELSE @]
reject(p) ==
    [p EXCEPT !.rejects = @ + 1,
              !.settled = IF @ = "pending" THEN "rejected" ELSE @]

\* ytdlp.on('error') (814-820)
ytdlpOnError(p) ==
    IF ~p.hasResolved THEN reject([p EXCEPT !.hasResolved = TRUE]) ELSE p

\* ytdlp.on('close') (822-829)
ytdlpOnClose(p, code) ==
    IF code # "0" /\ code # "null" /\ ~p.hasResolved
    THEN reject([p EXCEPT !.hasResolved = TRUE])
    ELSE p

\* the catch of the first 'readable' handler (846-851)
readableCatch(p) ==
    IF ~p.hasResolved THEN reject([p EXCEPT !.hasResolved = TRUE]) ELSE p

\* the first 'readable' handler (832-852), then the second (866-868)
ytdlpOnReadable(p, throws) ==
    LET set == [p EXCEPT !.hasResolved = TRUE]
        first == IF p.hasResolved THEN p
                 ELSE IF throws THEN readableCatch(set)
                 ELSE resolve([set EXCEPT !.attached = @ + 1])
    IN [first EXCEPT !.timeout = IF @ = "armed" THEN "cleared" ELSE @]

\* the 15 s timer (855-863)
ytdlpOnTimeout(p) ==
    LET fired == [p EXCEPT !.timeout = "fired"]
    IN IF ~p.hasResolved THEN reject([fired EXCEPT !.hasResolved = TRUE]) ELSE fired

NoStream == UNCHANGED <<queue, currentSong, isPlaying, radioMode, discoveryMode,
                        recentlyPlayed, recentArtists, currentVolume, fadeInterval,
                        retryCount, failedUrls, connection, textChannel, voiceChannel,
                        pending, members, guildQueues, objects, database, intervals,
                        hist>>

Emits(e) == ytdlp.settled # "none" /\ e \notin ytdlp.seen
Seen(p, e) == [p EXCEPT !.seen = @ \cup {e}]

\* playWithLocalStream is called for a track
YtdlpSpawn ==
    /\ budget.spawns > 0
    /\ \E u \in Urls : ytdlp' = spawnYtdlp(u)
    /\ budget' = [budget EXCEPT !.spawns = @ - 1]
    /\ UNCHANGED player
    /\ NoStream

YtdlpError ==
    /\ Emits("error")
    /\ ytdlp' = Seen(ytdlpOnError(ytdlp), "error")
    /\ UNCHANGED <<player, budget>>
    /\ NoStream

YtdlpClose ==
    /\ Emits("close")
    /\ \E code \in ExitCodes : ytdlp' = Seen(ytdlpOnClose(ytdlp, code), "close")
    /\ UNCHANGED <<player, budget>>
    /\ NoStream

\* stdout becomes readable: this.player.play(resource) attaches the stream
YtdlpReadable ==
    /\ Emits("readable")
    /\ \E throws \in BOOLEAN :
          LET p == ytdlpOnReadable(ytdlp, throws)
          IN /\ ytdlp' = Seen(IF throws THEN Seen(p, "threw") ELSE p, "readable")
             /\ player' = IF p.attached > ytdlp.attached
                           THEN [status |-> "playing", res |-> ytdlp.url, ending |-> FALSE]
                           ELSE player
    /\ UNCHANGED budget
    /\ NoStream

YtdlpTimeout ==
    /\ ytdlp.timeout = "armed"
    /\ ytdlp' = ytdlpOnTimeout(ytdlp)
    /\ UNCHANGED <<player, budget>>
    /\ NoStream

InitStream == Constructed /\ budget = [spawns |-> MaxSpawns]
NextStream == YtdlpSpawn \/ YtdlpError \/ YtdlpClose \/ YtdlpReadable \/ YtdlpTimeout
SpecStream == InitStream /\ [][NextStream]_vars

\* C36: each acquisition settles exactly once: resolve and reject are called
\* at most once in total, and once its 15 s timer has fired or was cleared the
\* Promise is settled; a failed attempt has attached no stream, a successful
\* one has attached its stream exactly once and was not failed.
C36_SettlesOnce ==
    /\ ytdlp.resolves + ytdlp.rejects <= 1
    /\ ytdlp.timeout \in {"fired", "cleared"} => ytdlp.settled \in {"resolved", "rejected"}
    /\ ytdlp.settled = "rejected" => ytdlp.attached = 0
    /\ ytdlp.settled = "resolved" => ytdlp.attached = 1 /\ ytdlp.rejects = 0

\* the same as long as createAudioResource and player.play do not throw
C36_SettlesOnceUnlessThrown ==
    "threw" \notin ytdlp.seen => C36_SettlesOnce

\* the acquisitions that are about it: a timeout without data, a stream
\* attached, and events after a failure
C36_TimedOut == ytdlp.timeout = "fired" /\ ytdlp.settled = "rejected" /\ ytdlp.seen = {}
C36_LateReadable ==
    ytdlp.settled = "rejected" /\ "readable" \in ytdlp.seen /\ ytdlp.attached = 0

----------------------------------------------------------------------------
\* C37: the delayed playNext of a failed playSong (the 1 s timer of its catch
\* block) never fades out, stops or replaces a track that was started in the
\* meantime and is playing when the timer fires.
C37_DelayedNextSpares ==
    [][(/\ CopiesIn(Timer("nextTimer"), pending') < CopiesIn(Timer("nextTimer"), pending)
        /\ isPlaying /\ currentSong # NoSong
        /\ player.status = "playing" /\ ~player.ending
        /\ player.res = currentSong.url)
       => /\ fadeInterval'.kind # "out"
          /\ currentSong' = currentSong
          /\ player' = player]_vars

----------------------------------------------------------------------------
\* C38: whenever the session is not playing and nothing is pending (no
\* advance, retry, timer or awaited promise, and the player is idle),
\* currentSong is none.
C38_IdleHasNoCurrentSong ==
    (~isPlaying /\ pending = EmptyBag /\ player.status = "idle")
        => currentSong = NoSong

----------------------------------------------------------------------------
\* The library with the reactions to the "now playing" message: a thumbs-up
\* or thumbs-down calls rateSong (part_003:707).

MaxRatings == 2        \* rateSong calls
Ratings == {1, -1}

\* rateSong (754-806)
rateSong(d, u, s, rating) ==
    LET existing == {r \in d.song_ratings : r.user_id = u /\ r.song_url = s}
        rated == [d EXCEPT !.song_ratings =
                      (@ \ existing)
                      \cup {[user_id |-> u, song_url |-> s, rating |-> rating]}]
        existingSong == {r \in d.user_songs : r.user_id = u /\ r.song_url = s}
    IN saveDatabase(IF rating = 1 /\ existingSong = {}
                    THEN [rated EXCEPT !.user_songs = @ \cup {Row(u, s, 1, d.now)}]
                    ELSE rated)

Rated ==
    \E u \in UserIds, s \in Urls, rating \in Ratings :
       database' = [rateSong(database, u, s, rating) EXCEPT !.out = NoQuery]

\* a listener reacts to the track that plays
RateSong ==
    /\ budget.ratings > 0
    /\ Rated
    /\ budget' = [budget EXCEPT !.ratings = @ - 1]
    /\ NoSession

RatingProfiles ==
    { [requests |-> 1, ratings |-> MaxRatings, queries |-> MaxQueries, ticks |-> 1] }

InitRatings == Constructed /\ budget \in RatingProfiles

NextRatings == TrackRequest \/ RateSong \/ RadioQuery \/ ClockTick

SpecRatings == InitRatings /\ [][NextRatings]_vars

\* C39: the list that getMultipleUsersSongs returns, from the cache or not, is
\* a list that the query on the user_songs table yields now.
C39_CacheCoherent ==
    database.out.on /\ database.out.userIds # <<>>
        => database.out.rows
              \in Query(database.user_songs, database.out.userIds, database.out.limit)

----------------------------------------------------------------------------
\* The saves of database.js: the debounce timer of saveDatabase, the periodic
\* save of initDatabase and shutdownDatabase, with reactions that write at
\* any time, any number of times, until the database is shut down.
\* writeFileSync may throw in every save.

\* a periodic save that does not write
periodicSaveIdle(d, ok) == d

\* the callback of the periodic save (480-485)
periodicSave(d, ok) == IF d.isDirty THEN saveDatabaseImmediate(d, ok) ELSE d

\* shutdownDatabase (519-537)
shutdownDatabase(d, ok) ==
    LET cleared == [d EXCEPT !.saveTimeout = FALSE, !.periodicSaveInterval = FALSE,
                             !.shut = TRUE]
    IN IF cleared.isDirty THEN saveDatabaseImmediate(cleared, ok) ELSE cleared

Reaction ==
    /\ ~database.shut
    /\ Rated
    /\ UNCHANGED budget
    /\ NoSession

\* the timer of saveDatabase fires after SAVE_DEBOUNCE_MS (513-515)
DebounceFire ==
    /\ database.saveTimeout
    /\ \E ok \in BOOLEAN :
          database' = [saveDatabaseImmediate(database, ok) EXCEPT !.saveTimeout = FALSE]
    /\ UNCHANGED budget
    /\ NoSession

\* the interval of initDatabase fires every PERIODIC_SAVE_MS
PeriodicTick ==
    /\ database.periodicSaveInterval
    /\ \E ok \in BOOLEAN : database' = periodicSave(database, ok)
    /\ UNCHANGED budget
    /\ NoSession

Shutdown ==
    /\ ~database.shut
    /\ \E ok \in BOOLEAN : database' = shutdownDatabase(database, ok)
    /\ UNCHANGED budget
    /\ NoSession

InitSave == Constructed /\ budget = [ratings |-> 0]

NextSave == Reaction \/ DebounceFire \/ PeriodicTick \/ Shutdown

SpecSave == InitSave /\ [][NextSave]_vars

\* the event loop runs the callback of a running interval
FairSave == SpecSave /\ WF_vars(PeriodicTick)

Tables == [user_songs |-> database.user_songs, song_ratings |-> database.song_ratings]

C40_ShutDown ==
    /\ database.shut /\ ~database.isDirty /\ database.lastSave = "ok"
    /\ database.disk.song_ratings # {}

====
